---- MODULE Spec2Model ----
(***************************************************************************)
(* A model of the feedback-transformation core of the empathetic code      *)
(* reviewer (src/code_reviewer.py): language detection, comment severity,  *)
(* resource linking, quality scoring, and generate_review_report with the  *)
(* call of the external generation service, step by step.                  *)
(*                                                                         *)
(* Texts.  A Python str is modelled as a sequence of lexemes (short        *)
(* strings such as "def", " ", "class", "Variable").  The lexemes are      *)
(* chosen so that a keyword of the program occurs in the concatenated      *)
(* text exactly when the keyword's lexeme sequence occurs as a contiguous  *)
(* subsequence: `kw in text` is Contains(text, kw).  str.lower() and       *)
(* str.strip() are modelled by what they do to the lexemes.                *)
(*                                                                         *)
(* Numbers.  Every score of the program is a multiple of 0.125 between     *)
(* -10 and 10 (7.0 plus a sum of -2.0, -1.0, -0.5, then a mean of four),   *)
(* which binary floating point represents and adds exactly.  A score s is  *)
(* modelled by the integer 8 * s: 7.0 is 56, 10 is 80, 0.5 is 4.           *)
(***************************************************************************)
EXTENDS Integers, Sequences, FiniteSets, TLC

VARIABLES
    pc,               \* position of the running call
    code_snippet,     \* argument: the code, a text
    comment,          \* argument: one review comment, a text
    comments,         \* argument: the batch of review comments
    language,         \* argument / local: the language, or None
    detected,         \* result of _detect_language
    severity,         \* result of _assess_comment_severity (a local of the scoring loop)
    resources,        \* result of _get_relevant_resources
    i,                \* scoring loop: number of comments processed
    readability,      \* scoring loop accumulators
    performance,
    maintainability,
    best_practices,
    quality_score,    \* result of _calculate_code_quality_score
    input_data,       \* generate_review_report: the request dict
    persona,          \* self.persona
    system_prompt,    \* _generate_empathetic_review: the two messages sent
    user_prompt,
    service_calls,    \* number of chat.completions.create calls issued
    response,         \* what the external service answered
    review_content,   \* the generated review text
    enhanced_review,  \* result of _enhance_with_resources
    final_report,     \* the report returned by generate_review_report
    error,            \* the exception raised to the caller, if any
    steps,            \* the steps of generate_review_report completed so far
    history,          \* the completed invocations of generate_review_report
    last_analysis     \* the dict returned by analyze_code_quality

review_vars == <<input_data, persona, system_prompt, user_prompt, service_calls,
                 response, review_content, enhanced_review, final_report, error,
                 steps, history, last_analysis>>

vars == <<pc, code_snippet, comment, comments, language, detected, severity,
          resources, i, readability, performance, maintainability,
          best_practices, quality_score, review_vars>>

(***************************************************************************)
(* Bounds of the model.                                                    *)
(***************************************************************************)
MaxCodeLen == 3
MaxCommentLen == 3
MaxResourceCommentLen == 2
MaxComments == 4

None == "None"

(***************************************************************************)
(* Texts: str.lower, str.strip and the `in` operator.                      *)
(***************************************************************************)
LowerLexeme(a) ==
    CASE a = "DEF" -> "def"
      [] a = "Class" -> "class"
      [] a = "Function" -> "function"
      [] a = "Hello" -> "hello"
      [] a = "fmt.Println(\"hello\")" -> "fmt.println(\"hello\")"
      [] a = "True" -> "true"
      [] a = "This" -> "this"
      [] a = "Variable" -> "variable"
      [] a = "Boolean" -> "boolean"
      [] a = "Looks" -> "looks"
      [] a = "Consider" -> "consider"
      [] a = "Terrible" -> "terrible"
      [] a = "Could" -> "could"
      [] a = "Bad" -> "bad"
      [] a = "Style" -> "style"
      [] a = "Use" -> "use"
      [] a = "Fix" -> "fix"
      [] a = "Don't" -> "don't"
      [] a = "Enhanced" -> "enhanced"
      [] a = "getUserData(users)" -> "getuserdata(users)"
      [] a = "List<User>" -> "list<user>"
      [] a = "getActiveUsers(List<User>" -> "getactiveusers(list<user>"
      [] a = "ArrayList<>();" -> "arraylist<>();"
      [] a = "User" -> "user"
      [] a = "(u.isActive()" -> "(u.isactive()"
      [] a = "u.isVerified()" -> "u.isverified()"
      [] OTHER -> a

\* the text as it is, capitals kept
lower_keeping_case(text) == text

lower(text) == [k \in DOMAIN text |-> LowerLexeme(text[k])]

Whitespace == {" ", "\n"}

RECURSIVE lstrip(_)
lstrip(text) ==
    IF text # <<>> /\ Head(text) \in Whitespace THEN lstrip(Tail(text)) ELSE text

RECURSIVE rstrip(_)
rstrip(text) ==
    IF text # <<>> /\ text[Len(text)] \in Whitespace
    THEN rstrip(SubSeq(text, 1, Len(text) - 1))
    ELSE text

strip(text) == rstrip(lstrip(text))

\* keyword in text
Contains(text, keyword) ==
    \E k \in 0..(Len(text) - Len(keyword)) :
        SubSeq(text, k + 1, k + Len(keyword)) = keyword

\* any(keyword in text for keyword in keywords)
AnyIn(text, keywords) ==
    \E k \in DOMAIN keywords : Contains(text, keywords[k])

(***************************************************************************)
(* _detect_language                                                        *)
(***************************************************************************)
Languages == <<"python", "javascript", "java", "cpp", "go">>

python_patterns ==
    << <<"def", " ">>, <<"class", " ">>, <<"import", " ">>, <<"from", " ">>,
       <<"elif">>, <<"__init__">> >>
\* the javascript patterns with "const " left out
javascript_patterns_without_const ==
    << <<"function">>, <<"let", " ">>, <<"=>">>, <<"console.log">> >>

javascript_patterns ==
    << <<"function">>, <<"const", " ">>, <<"let", " ">>, <<"=>">>,
       <<"console.log">> >>
java_patterns ==
    << <<"public", " ", "class">>, <<"private", " ">>, <<"protected", " ">>,
       <<"import", " ", "java">> >>
cpp_patterns ==
    << <<"#include">>, <<"namespace">>, <<"std::">>, <<"template<">> >>
go_patterns ==
    << <<"func", " ">>, <<"package", " ">>, <<"import", " ", "(">>,
       <<"type", " ">> >>

\* _detect_language with the javascript test made before the python one.
_detect_language_js_first(code) ==
    LET code_lower == strip(lower(code)) IN
    IF AnyIn(code_lower, javascript_patterns) THEN "javascript"
    ELSE IF AnyIn(code_lower, python_patterns) THEN "python"
    ELSE IF AnyIn(code_lower, java_patterns) THEN "java"
    ELSE IF AnyIn(code_lower, cpp_patterns) THEN "cpp"
    ELSE IF AnyIn(code_lower, go_patterns) THEN "go"
    ELSE "python"

_detect_language(code) ==
    LET code_lower == strip(lower(code)) IN
    IF AnyIn(code_lower, python_patterns) THEN "python"
    ELSE IF AnyIn(code_lower, javascript_patterns) THEN "javascript"
    ELSE IF AnyIn(code_lower, java_patterns) THEN "java"
    ELSE IF AnyIn(code_lower, cpp_patterns) THEN "cpp"
    ELSE IF AnyIn(code_lower, go_patterns) THEN "go"
    ELSE "python"

(***************************************************************************)
(* Inputs of the language detector: every text of at most MaxCodeLen       *)
(* lexemes over CodeLexemes, and the five snippets of                      *)
(* test_multi_language_detection.                                          *)
(***************************************************************************)
CodeLexemes ==
    {" ", "x", "def", "DEF", "class", "function", "const", "public",
     "#include", "func"}

Texts(lexemes, n) == UNION {[1..m -> lexemes] : m \in 0..n}

\* the snippets of test_multi_language_detection: python, javascript, java,
\* cpp, go
test_codes ==
    << <<"def", " ", "hello():", "\n", " ", " ", " ", " ", "print('world')">>,
       <<"function", " ", "hello()", " ", "{", "\n",
         " ", " ", " ", " ", "console.log", "('world');", "\n", "}">>,
       <<"public", " ", "class", " ", "Hello", " ", "{", "\n",
         " ", " ", " ", " ", "public", " ", "static", " ", "void", " ",
         "main()", " ", "{}", "\n", "}">>,
       <<"#include", " ", "<iostream>", "\n", "int", " ", "main()", " ",
         "{", " ", "return", " ", "0;", " ", "}">>,
       <<"package", " ", "main", "\n", "func", " ", "main()", " ", "{", "\n",
         " ", " ", " ", " ", "fmt.Println(\"hello\")", "\n", "}">> >>
\* the language test_multi_language_detection expects for each snippet
test_expected == <<"python", "javascript", "java", "cpp", "go">>

CodeInputs ==
    Texts(CodeLexemes, MaxCodeLen) \cup {test_codes[k] : k \in DOMAIN test_codes}

(***************************************************************************)
(* _assess_comment_severity                                                *)
(***************************************************************************)
harsh_indicators ==
    <<"bad", "terrible", "awful", "stupid", "dumb", "wrong", "never",
      "always", "completely", "totally", "absolutely", "obviously">>

neutral_indicators ==
    <<"could", "might", "consider", "suggest", "perhaps", "maybe",
      "improvement", "better", "optimize">>

\* the number of occurrences of indicators in the text instead
CountIn_occurrences(text, indicators) ==
    Cardinality({k \in DOMAIN text :
                    \E j \in DOMAIN indicators : indicators[j] = text[k]})

\* sum(1 for indicator in indicators if indicator in text): the number of
\* positions of the list whose indicator occurs in the text
CountIn(text, indicators) ==
    Cardinality({k \in DOMAIN indicators : Contains(text, <<indicators[k]>>)})

\* _assess_comment_severity with >= in place of the first >
_assess_comment_severity_ge(c) ==
    LET comment_lower == lower(c)
        harsh_count == CountIn(comment_lower, harsh_indicators)
        neutral_count == CountIn(comment_lower, neutral_indicators)
    IN  IF harsh_count >= neutral_count THEN "harsh"
        ELSE IF neutral_count > harsh_count THEN "neutral"
        ELSE "moderate"

_assess_comment_severity(c) ==
    LET comment_lower == lower(c)
        harsh_count == CountIn(comment_lower, harsh_indicators)
        neutral_count == CountIn(comment_lower, neutral_indicators)
    IN  IF harsh_count > neutral_count THEN "harsh"
        ELSE IF neutral_count > harsh_count THEN "neutral"
        ELSE "moderate"

(***************************************************************************)
(* Inputs of the severity classifier: every text of at most MaxCommentLen  *)
(* lexemes over SeverityLexemes.                                           *)
(***************************************************************************)
SeverityLexemes ==
    {" ", "fine", "bad", "Bad", "never", "could", "maybe", "optimize"}

CommentInputs == Texts(SeverityLexemes, MaxCommentLen)

(***************************************************************************)
(* _calculate_code_quality_score.  Scores are counted in eighths.          *)
(***************************************************************************)
Eighths(n) == 8 * n

baseline == Eighths(7)

\* every severity weighing -1.0
severity_weights_flat(s) == -Eighths(1)

\* a neutral comment weighing nothing
severity_weights_neutral_free(s) ==
    CASE s = "harsh" -> -Eighths(2)
      [] s = "moderate" -> -Eighths(1)
      [] OTHER -> 0

\* the weights with a bonus of 0.5 for a neutral comment
severity_weights_neutral_bonus(s) ==
    CASE s = "harsh" -> -Eighths(2)
      [] s = "moderate" -> -Eighths(1)
      [] OTHER -> 4

\* severity_weights.get(severity, -0.5): harsh -2.0, moderate -1.0, neutral -0.5

severity_weights(s) ==
    CASE s = "harsh" -> -Eighths(2)
      [] s = "moderate" -> -Eighths(1)
      [] s = "neutral" -> -4
      [] OTHER -> -4

readability_words == << <<"naming">>, <<"variable">>, <<"unclear">> >>
performance_words ==
    << <<"efficient">>, <<"performance">>, <<"slow">>, <<"optimize">> >>
maintainability_words ==
    << <<"maintainability">>, <<"complex">>, <<"structure">> >>
best_practices_words ==
    << <<"convention">>, <<"style">>, <<"best", " ", "practice">>,
       <<"standard">> >>

\* the penalty applied once for every trigger word the comment contains
penalty_per_word(comment_lower, words, weight) ==
    weight * Cardinality({k \in DOMAIN words : Contains(comment_lower, words[k])})

\* the penalty applied whatever the comment says
penalty_always(comment_lower, words, weight) == weight

\* if any(word in comment_lower for word in words): dimension += weight
penalty(comment_lower, words, weight) ==
    IF AnyIn(comment_lower, words) THEN weight ELSE 0

Min(a, b) == IF a <= b THEN a ELSE b
Max(a, b) == IF a >= b THEN a ELSE b

\* min(10, x) without the max(0, ...)
clamp_above_only(x) == Min(Eighths(10), x)

\* max(0, min(10, x))
clamp(x) == Max(0, Min(Eighths(10), x))

\* the mean of the first three dimensions
overall_of_three(r, p, m, b) == (r + p + m) \div 3

\* (readability + performance + maintainability + best_practices) / 4
overall_of(r, p, m, b) == (r + p + m + b) \div 4

CodeQualityScore(o, r, p, m, b, ip) ==
    [overall_score |-> o, readability |-> r, performance |-> p,
     maintainability |-> m, best_practices |-> b, improvement_potential |-> ip]

(***************************************************************************)
(* Inputs of the scorer: batches of at most MaxComments comments drawn     *)
(* from BatchComments, with the codes of test_resource_generation.         *)
(***************************************************************************)
\* "This is inefficient."
comment_inefficient == <<"This", " ", "is", " ", "in", "efficient", ".">>
\* "Variable 'u' is a bad name."
comment_bad_name ==
    <<"Variable", " ", "'u'", " ", "is", " ", "a", " ", "bad", " ", "name.">>
\* "Boolean comparison '== True' is redundant."
comment_redundant ==
    <<"Boolean", " ", "comparison", " ", "'", "==", " ", "True", "'", " ",
      "is", " ", "redundant.">>
\* "Looks fine."
comment_fine == <<"Looks", " ", "fine", ".">>
\* "Consider better naming"
comment_naming == <<"Consider", " ", "better", " ", "naming">>
\* "Terrible style, totally unclear, complex and slow"
comment_terrible ==
    <<"Terrible", " ", "style", ",", " ", "totally", " ", "unclear", ",", " ",
      "complex", " ", "and", " ", "slow">>
\* "This is bad"
comment_bad == <<"This", " ", "is", " ", "bad">>

BatchComments ==
    {comment_inefficient, comment_bad_name, comment_redundant, comment_fine,
     comment_naming, comment_terrible, comment_bad}

Batches == UNION {[1..m -> BatchComments] : m \in 0..MaxComments}

\* "def func(): pass"
code_def == <<"def", " ", "func", "():", " ", "pass">>
\* "for item in items: pass"
code_for == <<"for", " ", "item", " ", "in", " ", "items:", " ", "pass">>
\* "if flag == True: pass"
code_true == <<"if", " ", "flag", " ", "==", " ", "True", ":", " ", "pass">>
\* "function f() { const x = 1; }"
code_js == <<"function", " ", "f()", " ", "{", " ", "const", " ", "x", " ",
             "=", " ", "1;", " ", "}">>
\* "const ok = flag == true;"
code_js_true == <<"const", " ", "ok", " ", "=", " ", "flag", " ", "==", " ",
                  "true", ";">>

(***************************************************************************)
(* _get_relevant_resources                                                 *)
(***************************************************************************)
python_resources ==
    [naming |-> "[PEP 8 - Naming Conventions](https://peps.python.org/pep-0008/#naming-conventions)",
     performance |-> "[Python Performance Tips](https://wiki.python.org/moin/PythonSpeed/PerformanceTips)",
     comprehension |-> "[List Comprehensions](https://docs.python.org/3/tutorial/datastructures.html#list-comprehensions)",
     style |-> "[PEP 8 - Style Guide](https://peps.python.org/pep-0008/)",
     docstrings |-> "[PEP 257 - Docstring Conventions](https://peps.python.org/pep-0257/)"]

javascript_resources ==
    [naming |-> "[JavaScript Naming Conventions](https://developer.mozilla.org/en-US/docs/MDN/Writing_guidelines/Writing_style_guide/Code_style_guide/JavaScript#naming_conventions)",
     performance |-> "[JavaScript Performance Best Practices](https://developer.mozilla.org/en-US/docs/Learn/Performance/JavaScript)",
     style |-> "[Airbnb JavaScript Style Guide](https://github.com/airbnb/javascript)",
     async |-> "[Async/Await Best Practices](https://developer.mozilla.org/en-US/docs/Learn/JavaScript/Asynchronous/Async_await)",
     es6 |-> "[ES6 Features Guide](https://developer.mozilla.org/en-US/docs/Web/JavaScript/New_in_JavaScript/ECMAScript_6_support_in_Mozilla)"]

java_resources ==
    [naming |-> "[Java Naming Conventions](https://www.oracle.com/java/technologies/javase/codeconventions-namingconventions.html)",
     performance |-> "[Java Performance Tuning](https://docs.oracle.com/javase/8/docs/technotes/guides/performance/)",
     style |-> "[Google Java Style Guide](https://google.github.io/styleguide/javaguide.html)",
     concurrency |-> "[Java Concurrency Tutorial](https://docs.oracle.com/javase/tutorial/essential/concurrency/)"]

cpp_resources ==
    [naming |-> "[C++ Core Guidelines - Naming](https://isocpp.github.io/CppCoreGuidelines/CppCoreGuidelines#S-naming)",
     performance |-> "[C++ Performance Guidelines](https://isocpp.github.io/CppCoreGuidelines/CppCoreGuidelines#S-performance)",
     style |-> "[Google C++ Style Guide](https://google.github.io/styleguide/cppguide.html)",
     modern |-> "[Modern C++ Best Practices](https://isocpp.github.io/CppCoreGuidelines/CppCoreGuidelines)"]

go_resources ==
    [naming |-> "[Go Code Review Comments](https://github.com/golang/go/wiki/CodeReviewComments)",
     performance |-> "[Go Performance Tips](https://github.com/golang/go/wiki/Performance)",
     style |-> "[Effective Go](https://golang.org/doc/effective_go.html)",
     fmt |-> "[Go Formatting Guidelines](https://golang.org/doc/effective_go.html#formatting)"]

\* language_configs[lang]["resources"]
language_configs ==
    [python |-> python_resources, javascript |-> javascript_resources,
     java |-> java_resources, cpp |-> cpp_resources, go |-> go_resources]

\* dict.get(key, default)
get(dict, key, default) == IF key \in DOMAIN dict THEN dict[key] ELSE default

\* resources.append(link) if cond
append_if(cond, link) == IF cond THEN <<link>> ELSE <<>>

_get_relevant_resources(c, code, lang_arg) ==
    LET lang == IF lang_arg = None THEN _detect_language(code) ELSE lang_arg
        comment_lower == lower(c)
        code_lower == lower(code)
        lang_resources == get(language_configs, lang, language_configs["python"])
        has(word) == Contains(comment_lower, <<word>>)
        generic ==
            append_if(has("variable") \/ has("naming"),
                      get(lang_resources, "naming", ""))
            \o append_if(has("efficient") \/ has("performance") \/ has("loop"),
                         get(lang_resources, "performance", ""))
            \o append_if(has("style") \/ Contains(comment_lower, <<"format", "ting">>),
                         get(lang_resources, "style", ""))
        specific ==
            IF lang = "python" THEN
                append_if(has("comprehension")
                            \/ Contains(comment_lower, <<"list", " ", "comprehension">>),
                          get(lang_resources, "comprehension", ""))
                \o append_if(Contains(code_lower, <<"==", " ", "true">>)
                               \/ Contains(code_lower, <<"==", " ", "false">>),
                             get(lang_resources, "style", ""))
                \o append_if(has("function") \/ has("docstring"),
                             get(lang_resources, "docstrings", ""))
            ELSE IF lang = "javascript" THEN
                append_if(has("async") \/ has("promise"),
                          get(lang_resources, "async", ""))
                \o append_if(has("es6") \/ has("arrow") \/ has("const"),
                             get(lang_resources, "es6", ""))
            ELSE IF lang = "java" THEN
                append_if(has("thread") \/ has("concurrent"),
                          get(lang_resources, "concurrency", ""))
            ELSE IF lang = "cpp" THEN
                append_if(has("modern") \/ has("c++11") \/ has("c++14"),
                          get(lang_resources, "modern", ""))
            ELSE IF lang = "go" THEN
                append_if(has("format") \/ has("gofmt"),
                          get(lang_resources, "fmt", ""))
            ELSE <<>>
        resources_all == generic \o specific
    IN  SelectSeq(resources_all, LAMBDA r : r # "")

(***************************************************************************)
(* Inputs of the resource linker: every comment of at most                 *)
(* MaxResourceCommentLen lexemes over ResourceLexemes, the codes of        *)
(* test_resource_generation and a javascript one, and as language None     *)
(* (the default), each of the five languages and an unrecognized one.      *)
(***************************************************************************)
ResourceLexemes ==
    {" ", "variable", "style", "Style", "format", "ting", "efficient", "const",
     "thread", "modern", "function"}

ResourceComments == Texts(ResourceLexemes, MaxResourceCommentLen)

ResourceCodes == {<<>>, code_def, code_for, code_true, code_js, code_js_true}

LanguageArgs == {None, "rust"} \cup {Languages[k] : k \in DOMAIN Languages}

(***************************************************************************)
(* _enhance_with_resources                                                 *)
(***************************************************************************)
\* all_resources after the loop: the per-comment results, extended in
\* comment order
RECURSIVE all_resources(_, _, _)
all_resources(cmts, code, lang) ==
    IF cmts = <<>> THEN <<>>
    ELSE all_resources(SubSeq(cmts, 1, Len(cmts) - 1), code, lang)
         \o _get_relevant_resources(cmts[Len(cmts)], code, lang)

\* list(dict.fromkeys(s)) with the last occurrence of a key kept instead
RECURSIVE fromkeys_keep_last(_)
fromkeys_keep_last(s) ==
    IF s = <<>> THEN <<>>
    ELSE LET rest == fromkeys_keep_last(Tail(s))
         IN  IF \E k \in DOMAIN rest : rest[k] = Head(s) THEN rest
             ELSE <<Head(s)>> \o rest

\* list(dict.fromkeys(s)): a dict keeps its keys in insertion order and
\* setting an existing key does not move it
RECURSIVE fromkeys(_)
fromkeys(s) ==
    IF s = <<>> THEN <<>>
    ELSE LET keys == fromkeys(SubSeq(s, 1, Len(s) - 1))
             key == s[Len(s)]
         IN  IF \E k \in DOMAIN keys : keys[k] = key THEN keys
             ELSE Append(keys, key)

resource_section_head ==
    <<"\n\n", "## Additional Resources", "\n\n",
      "For further learning, consider reviewing these resources:", "\n\n">>

\* resource_section += f"- {resource}\n" for each resource
RECURSIVE resource_lines(_)
resource_lines(unique_resources) ==
    IF unique_resources = <<>> THEN <<>>
    ELSE <<"- ", Head(unique_resources), "\n">>
         \o resource_lines(Tail(unique_resources))

\* the list the section is made of
unique_resources_of(code, cmts, lang_arg) ==
    LET lang == IF lang_arg = None THEN _detect_language(code) ELSE lang_arg
    IN  fromkeys(all_resources(cmts, code, lang))

append_resource_section(content, unique_resources) ==
    IF unique_resources # <<>>
    THEN content \o resource_section_head \o resource_lines(unique_resources)
    ELSE content

_enhance_with_resources(content, code, cmts, lang_arg) ==
    append_resource_section(content, unique_resources_of(code, cmts, lang_arg))

(***************************************************************************)
(* Inputs of _enhance_with_resources: a generated review (or an empty      *)
(* one), batches of at most MaxComments comments of EnhanceComments, three *)
(* codes, and as language None, a recognized and an unrecognized one.      *)
(***************************************************************************)
\* a review as the user prompt asks for it: one section and a summary
review_text ==
    <<"---", "\n", "### Analysis of Comment: ", "\"", "This is bad", "\"",
      "\n\n", "---", "\n\n", "## Summary", "\n\n", "Nice work.">>

EnhanceReviews == {<<>>, review_text}

EnhanceComments ==
    {comment_bad_name, comment_inefficient, comment_terrible, comment_fine}

EnhanceBatches == UNION {[1..m -> EnhanceComments] : m \in 0..MaxComments}

EnhanceCodes == {code_def, code_true, code_js}

EnhanceLanguages == {None, "go", "rust"}

(***************************************************************************)
(* ReviewerPersona and _get_persona_prompt.  A persona is named by its     *)
(* enum member; "architect" stands for a value handed to the constructor   *)
(* or to set_persona that is not a member of the enum (a plain str).       *)
(***************************************************************************)
ReviewerPersona == {"SENIOR_DEVELOPER", "TECH_LEAD", "PAIR_PROGRAMMING", "MENTOR"}

PersonaValues == ReviewerPersona \cup {"architect"}

\* ReviewerPersona.<member>.value
value(member) ==
    CASE member = "SENIOR_DEVELOPER" -> <<"senior", "_", "developer">>
      [] member = "TECH_LEAD" -> <<"tech", "_", "lead">>
      [] member = "PAIR_PROGRAMMING" -> <<"pair", "_", "programming">>
      [] member = "MENTOR" -> <<"mentor">>

\* the instruction blocks, each named by its first sentence
persona_prompts ==
    [member \in ReviewerPersona |->
        CASE member = "SENIOR_DEVELOPER" ->
                 "You are a seasoned senior software engineer with 10+ years of experience."
          [] member = "TECH_LEAD" ->
                 "You are a technical lead who balances technical excellence with team dynamics and project constraints."
          [] member = "PAIR_PROGRAMMING" ->
                 "You are a collaborative pair programming partner working side-by-side with the developer."
          [] member = "MENTOR" ->
                 "You are a patient, encouraging mentor focused on teaching and growth."]

_get_persona_prompt(self_persona) ==
    get(persona_prompts, self_persona, persona_prompts["SENIOR_DEVELOPER"])

(***************************************************************************)
(* str methods on the words the report is made of                          *)
(***************************************************************************)
\* str.upper of a language name
upper(word) ==
    CASE word = "python" -> "PYTHON"
      [] word = "javascript" -> "JAVASCRIPT"
      [] word = "java" -> "JAVA"
      [] word = "cpp" -> "CPP"
      [] word = "go" -> "GO"
      [] OTHER -> word

\* str.title of one word: its first letter in upper case
TitleWord(word) ==
    CASE word = "python" -> "Python"
      [] word = "javascript" -> "Javascript"
      [] word = "java" -> "Java"
      [] word = "cpp" -> "Cpp"
      [] word = "go" -> "Go"
      [] word = "senior" -> "Senior"
      [] word = "developer" -> "Developer"
      [] word = "tech" -> "Tech"
      [] word = "lead" -> "Lead"
      [] word = "pair" -> "Pair"
      [] word = "programming" -> "Programming"
      [] word = "mentor" -> "Mentor"
      [] OTHER -> word

title(text) == [k \in DOMAIN text |-> TitleWord(text[k])]

\* str.replace(old, new) where old is one lexeme
replace(text, old, new) == [k \in DOMAIN text |-> IF text[k] = old THEN new ELSE text[k]]

\* the decimal digits after the point of n / 8
EighthsDigits == <<".0", ".125", ".25", ".375", ".5", ".625", ".75", ".875">>

\* str(x) of the float x = n / 8, n >= 0
float_str(n) == <<ToString(n \div 8), EighthsDigits[(n % 8) + 1]>>

(***************************************************************************)
(* _create_system_prompt and the user prompt of _generate_empathetic_review*)
(* A fixed passage is named by its first words, and the white space        *)
(* between the passages of the system prompt is left out.                  *)
(***************************************************************************)
severity_adjustments ==
    [harsh |-> " Pay special attention to softening harsh language and being extra encouraging.",
     moderate |-> " Maintain a balanced, professional tone while being supportive and educational.",
     neutral |-> " The original feedback was already fairly neutral, so focus on making it more educational and adding the 'why' behind suggestions."]

_create_system_prompt(self_persona, sev, lang) ==
    LET persona_context == _get_persona_prompt(self_persona)
        base_prompt ==
            <<"You are an empathetic and educational code reviewer.",
              persona_context,
              "Code Language Context: You are reviewing ", upper(lang), " code.",
              "Key principles:">>
        adjustment == get(severity_adjustments, sev, "")
    IN  IF adjustment = "" THEN base_prompt ELSE Append(base_prompt, adjustment)

\* max(...) returning the last element whose count is the largest
overall_severity_of_last(severities) ==
    LET count(x) == Cardinality({k \in DOMAIN severities : severities[k] = x})
        best == {k \in DOMAIN severities :
                    \A m \in DOMAIN severities : count(severities[m]) <= count(severities[k])}
    IN  IF severities = <<>> THEN None
        ELSE severities[CHOOSE k \in best : \A m \in best : k >= m]

\* max(severities, key=severities.count): the first element whose count is
\* the largest
overall_severity_of(severities) ==
    LET count(x) == Cardinality({k \in DOMAIN severities : severities[k] = x})
        best == {k \in DOMAIN severities :
                    \A m \in DOMAIN severities : count(severities[m]) <= count(severities[k])}
    IN  IF severities = <<>> THEN None
        ELSE severities[CHOOSE k \in best : \A m \in best : k <= m]

\* json.dumps of one str: quotes and backslashes are escaped
json_str(text) ==
    <<"\"">> \o [k \in DOMAIN text |->
                    CASE text[k] = "\"" -> "\\\""
                      [] text[k] = "\\" -> "\\\\"
                      [] OTHER -> text[k]] \o <<"\"">>

RECURSIVE json_items(_)
json_items(cmts) ==
    IF cmts = <<>> THEN <<>>
    ELSE IF Len(cmts) = 1 THEN <<"\n  ">> \o json_str(cmts[1])
    ELSE <<"\n  ">> \o json_str(Head(cmts)) \o <<",">> \o json_items(Tail(cmts))

\* json.dumps(comments, indent=2)
json_dumps(cmts) ==
    IF cmts = <<>> THEN <<"[]">> ELSE <<"[">> \o json_items(cmts) \o <<"\n", "]">>

\* the markdown code fence, three backquotes
fence == "<fence>"

user_prompt_of(code, cmts, lang) ==
    <<"Please transform the following ", upper(lang), " code review comments",
      "\n\n", "Code Snippet:", "\n", fence, lang, "\n">>
    \o code
    \o <<"\n", fence, "\n\n", "Original Comments:", "\n">>
    \o json_dumps(cmts)
    \o <<"\n\n", "Format your response as markdown", "\n\n",
         "After addressing all comments, add a \"Summary\" section">>

(***************************************************************************)
(* _calculate_code_quality_score as one function of its arguments          *)
(***************************************************************************)
\* a list element that is not a str (1, None, ...)
NonStr == <<"<not a str>">>

RECURSIVE dimension_after_loop(_, _)
dimension_after_loop(cmts, words) ==
    IF cmts = <<>> THEN baseline
    ELSE LET c == cmts[Len(cmts)]
         IN  dimension_after_loop(SubSeq(cmts, 1, Len(cmts) - 1), words)
             + penalty(lower(c), words, severity_weights(_assess_comment_severity(c)))

_calculate_code_quality_score(code, cmts, lang) ==
    LET r == clamp(dimension_after_loop(cmts, readability_words))
        p == clamp(dimension_after_loop(cmts, performance_words))
        m == clamp(dimension_after_loop(cmts, maintainability_words))
        b == clamp(dimension_after_loop(cmts, best_practices_words))
        overall_score == overall_of(r, p, m, b)
    IN  CodeQualityScore(overall_score, r, p, m, b, Eighths(10) - overall_score)

(***************************************************************************)
(* generate_review_report: validation, header, errors                      *)
(***************************************************************************)
\* an exception: its class and the parts of str(e)
Error(type, message) == [type |-> type, message |-> message]

\* no exception
NoError == Error(None, <<>>)

\* a value of input_data["review_comments"]: its Python type and, for a
\* list, its elements
PyList(items) == [type |-> "list", items |-> items]
PyNone == [type |-> "NoneType", items |-> <<>>]
PyStr == [type |-> "str", items |-> <<>>]

\* lines 403-410 without the test for an empty list
validation_error_accepting_empty(input) ==
    IF "code_snippet" \notin DOMAIN input \/ "review_comments" \notin DOMAIN input
    THEN Error("ValueError",
               <<"Input must contain 'code_snippet' and 'review_comments' keys">>)
    ELSE IF input.review_comments.type # "list"
    THEN Error("ValueError", <<"'review_comments' must be a non-empty list">>)
    ELSE NoError

\* lines 403-410: the ValueError validation raises, or NoError
validation_error(input) ==
    IF "code_snippet" \notin DOMAIN input \/ "review_comments" \notin DOMAIN input
    THEN Error("ValueError",
               <<"Input must contain 'code_snippet' and 'review_comments' keys">>)
    ELSE IF input.review_comments.type # "list" \/ input.review_comments.items = <<>>
    THEN Error("ValueError", <<"'review_comments' must be a non-empty list">>)
    ELSE NoError

\* lines 432-433: what the caller gets for an exception e raised inside
wrapped(e) == Error("Exception", <<"Failed to generate review report: ">> \o e.message)

\* lines 372-373 without str(e)
generation_error_opaque(e) == Error("Exception", <<"Error generating review">>)

\* lines 372-373
generation_error(e) == Error("Exception", <<"Error generating review: ">> \o e.message)

\* line 425
persona_name_of(self_persona) == title(replace(value(self_persona), "_", " "))

\* the pictograph of the title of the report (not an ASCII character)
pictograph == "<memo>"

\* line 426 with the number of the review in the title
report_header_numbered(lang, persona_name, overall_score) ==
    <<"# ", "Report ", ToString(Len(history)), "\n\n", "**Language:** ",
      TitleWord(lang), " | ", "**Reviewer Persona:** ">>
    \o persona_name
    \o <<" | ", "**Overall Quality Score:** ">>
    \o float_str(overall_score)
    \o <<"/10", "\n\n">>

\* line 426
report_header(lang, persona_name, overall_score) ==
    <<"# ", pictograph, " ", "Empathetic Code Review Report", "\n\n",
      "**Language:** ", TitleWord(lang),
      " | ", "**Reviewer Persona:** ">>
    \o persona_name
    \o <<" | ", "**Overall Quality Score:** ">>
    \o float_str(overall_score)
    \o <<"/10", "\n\n">>

(***************************************************************************)
(* Inputs of generate_review_report: requests with and without each key,   *)
(* with an empty and two non-empty codes, and as review_comments a list of *)
(* at most MaxReviewComments elements of ReviewComments (one of them not a *)
(* str), None or a str; the persona the reviewer was constructed with; and *)
(* what the external service may answer.                                   *)
(***************************************************************************)
MaxReviewComments == 2

ReviewCodes == {<<>>, code_def, code_true}

ReviewComments == {comment_bad_name, comment_fine, comment_terrible, NonStr}

ReviewLists == UNION {[1..m -> ReviewComments] : m \in 0..MaxReviewComments}

\* input_data = {}
EmptyDict == [key \in {} |-> <<>>]

Requests ==
    {[code_snippet |-> code, review_comments |-> PyList(items)] :
        code \in ReviewCodes, items \in ReviewLists}
    \cup {[code_snippet |-> code, review_comments |-> v] :
             code \in ReviewCodes, v \in {PyNone, PyStr}}
    \cup {[code_snippet |-> code_def], [review_comments |-> PyList(<<comment_fine>>)],
          EmptyDict}

\* what chat.completions.create does: it returns a response whose first
\* choice holds a text ("text"), or holds None ("no_content"), or that has
\* no choices ("no_choices"), or it raises ("error")
Response(kind, content) == [kind |-> kind, content |-> content]

ServiceResponses ==
    {Response("text", <<"\n">> \o review_text \o <<"\n">>),
     Response("text", <<>>),
     Response("text", <<" ", "\n">>),
     Response("no_content", <<>>),
     Response("no_choices", <<>>),
     Response("error", <<>>)}

\* the exception lines 360-370 raise on a response that is not a text
service_exception(r) ==
    CASE r.kind = "no_content" ->
             Error("AttributeError", <<"'NoneType' object has no attribute 'strip'">>)
      [] r.kind = "no_choices" -> Error("IndexError", <<"list index out of range">>)
      [] r.kind = "error" -> Error("APIConnectionError", <<"Connection error.">>)

(***************************************************************************)
(* The four specifications: one call of each function on inputs drawn      *)
(* from the bounded sets above.                                            *)
(***************************************************************************)
NoScore == CodeQualityScore(-1, -1, -1, -1, -1, -1)

\* no answer of the external service yet
NoResponse == [kind |-> None, content |-> <<>>]

\* the variables of generate_review_report before any call of it
\* before analyze_code_quality has returned
NoAnalysis ==
    [language |-> None, quality_metrics |-> NoScore, total_issues |-> -1,
     severity_breakdown |-> [harsh |-> -1, moderate |-> -1, neutral |-> -1]]

ReviewIdle ==
    /\ input_data = <<>>
    /\ persona = "SENIOR_DEVELOPER"
    /\ system_prompt = <<>>
    /\ user_prompt = <<>>
    /\ service_calls = 0
    /\ response = NoResponse
    /\ review_content = <<>>
    /\ enhanced_review = <<>>
    /\ final_report = <<>>
    /\ error = NoError
    /\ steps = <<>>
    /\ history = <<>>
    /\ last_analysis = NoAnalysis

\* _detect_language(code_snippet)
InitDetect ==
    /\ pc = "detect"
    /\ code_snippet \in CodeInputs
    /\ comment = <<>>
    /\ comments = <<>>
    /\ language = None
    /\ detected = None
    /\ severity = None
    /\ resources = <<>>
    /\ i = 0
    /\ readability = baseline
    /\ performance = baseline
    /\ maintainability = baseline
    /\ best_practices = baseline
    /\ quality_score = NoScore
    /\ ReviewIdle

DetectLanguage ==
    /\ pc = "detect"
    /\ detected' = _detect_language(code_snippet)
    /\ pc' = "detected"
    /\ UNCHANGED <<code_snippet, comment, comments, language, severity, resources,
                   i, readability, performance, maintainability, best_practices,
                   quality_score>>
    /\ UNCHANGED review_vars

NextDetect == DetectLanguage

SpecDetect == InitDetect /\ [][NextDetect]_vars

\* _assess_comment_severity(comment)
InitSeverity ==
    /\ pc = "assess"
    /\ comment \in CommentInputs
    /\ code_snippet = <<>>
    /\ comments = <<>>
    /\ language = None
    /\ detected = None
    /\ severity = None
    /\ resources = <<>>
    /\ i = 0
    /\ readability = baseline
    /\ performance = baseline
    /\ maintainability = baseline
    /\ best_practices = baseline
    /\ quality_score = NoScore
    /\ ReviewIdle

AssessCommentSeverity ==
    /\ pc = "assess"
    /\ severity' = _assess_comment_severity(comment)
    /\ pc' = "assessed"
    /\ UNCHANGED <<code_snippet, comment, comments, language, detected, resources,
                   i, readability, performance, maintainability, best_practices,
                   quality_score>>
    /\ UNCHANGED review_vars

NextSeverity == AssessCommentSeverity

SpecSeverity == InitSeverity /\ [][NextSeverity]_vars

\* _calculate_code_quality_score(code_snippet, comments, language), called
\* as generate_review_report and analyze_code_quality call it, with the
\* detected language.  The initial state is the one before the loop.
InitScore ==
    /\ pc = "score_loop"
    /\ code_snippet \in {code_def, code_js}
    /\ comments \in Batches
    /\ language = _detect_language(code_snippet)
    /\ comment = <<>>
    /\ detected = None
    /\ severity = None
    /\ resources = <<>>
    /\ i = 0
    /\ readability = baseline
    /\ performance = baseline
    /\ maintainability = baseline
    /\ best_practices = baseline
    /\ quality_score = NoScore
    /\ ReviewIdle

\* one iteration of `for comment in comments`
\* the loop step with the penalties of the first comment counted twice
ScoreComment_first_counts_twice ==
    /\ pc = "score_loop"
    /\ i < Len(comments)
    /\ \E c \in {comments[i + 1]} :
       \E sev \in {_assess_comment_severity(c)} :
       \E weight \in {IF i = 0 THEN 2 * severity_weights(sev)
                               ELSE severity_weights(sev)} :
       \E comment_lower \in {lower(c)} :
           /\ comment' = c
           /\ severity' = sev
           /\ readability' = readability + penalty(comment_lower, readability_words, weight)
           /\ performance' = performance + penalty(comment_lower, performance_words, weight)
           /\ maintainability' =
                  maintainability + penalty(comment_lower, maintainability_words, weight)
           /\ best_practices' =
                  best_practices + penalty(comment_lower, best_practices_words, weight)
    /\ i' = i + 1
    /\ UNCHANGED <<pc, code_snippet, comments, language, detected, resources,
                   quality_score>>
    /\ UNCHANGED review_vars

ScoreComment ==
    /\ pc = "score_loop"
    /\ i < Len(comments)
    /\ \E c \in {comments[i + 1]} :
       \E sev \in {_assess_comment_severity(c)} :
       \E weight \in {severity_weights(sev)} :
       \E comment_lower \in {lower(c)} :
           /\ comment' = c
           /\ severity' = sev
           /\ readability' = readability + penalty(comment_lower, readability_words, weight)
           /\ performance' = performance + penalty(comment_lower, performance_words, weight)
           /\ maintainability' =
                  maintainability + penalty(comment_lower, maintainability_words, weight)
           /\ best_practices' =
                  best_practices + penalty(comment_lower, best_practices_words, weight)
    /\ i' = i + 1
    /\ UNCHANGED <<pc, code_snippet, comments, language, detected, resources,
                   quality_score>>
    /\ UNCHANGED review_vars

\* after the loop: clamp, overall score, improvement potential, return
ScoreReturn ==
    /\ pc = "score_loop"
    /\ i = Len(comments)
    /\ LET r == clamp(readability)
           p == clamp(performance)
           m == clamp(maintainability)
           b == clamp(best_practices)
           overall_score == overall_of(r, p, m, b)
           improvement_potential == Eighths(10) - overall_score
       IN  /\ readability' = r
           /\ performance' = p
           /\ maintainability' = m
           /\ best_practices' = b
           /\ quality_score' =
                  CodeQualityScore(overall_score, r, p, m, b, improvement_potential)
    /\ pc' = "scored"
    /\ UNCHANGED <<code_snippet, comment, comments, language, detected, severity,
                   resources, i>>
    /\ UNCHANGED review_vars

NextScore == ScoreComment \/ ScoreReturn

SpecScore == InitScore /\ [][NextScore]_vars

(***************************************************************************)
(* SpecPenalty: _calculate_code_quality_score, comment by comment, for     *)
(* batches of at most MaxComments comments of PenaltyComments: a comment   *)
(* with three trigger words of one dimension, a harsh one with a trigger   *)
(* word of each dimension and a neutral one.                               *)
(***************************************************************************)
\* "Variable naming is unclear"
comment_unclear_naming ==
    <<"Variable", " ", "naming", " ", "is", " ", "unclear">>

PenaltyComments == {comment_unclear_naming, comment_terrible, comment_naming}

PenaltyBatches == UNION {[1..m -> PenaltyComments] : m \in 0..MaxComments}

InitPenalty ==
    /\ pc = "score_loop"
    /\ code_snippet \in {code_def, code_js}
    /\ comments \in PenaltyBatches
    /\ language = _detect_language(code_snippet)
    /\ comment = <<>>
    /\ detected = None
    /\ severity = None
    /\ resources = <<>>
    /\ i = 0
    /\ readability = baseline
    /\ performance = baseline
    /\ maintainability = baseline
    /\ best_practices = baseline
    /\ quality_score = NoScore
    /\ ReviewIdle

SpecPenalty == InitPenalty /\ [][NextScore]_vars

\* _get_relevant_resources(comment, code_snippet, language)
InitResources ==
    /\ pc = "link"
    /\ comment \in ResourceComments
    /\ code_snippet \in ResourceCodes
    /\ language \in LanguageArgs
    /\ comments = <<>>
    /\ detected = None
    /\ severity = None
    /\ resources = <<>>
    /\ i = 0
    /\ readability = baseline
    /\ performance = baseline
    /\ maintainability = baseline
    /\ best_practices = baseline
    /\ quality_score = NoScore
    /\ ReviewIdle

GetRelevantResources ==
    /\ pc = "link"
    /\ resources' = _get_relevant_resources(comment, code_snippet, language)
    /\ pc' = "linked"
    /\ UNCHANGED <<code_snippet, comment, comments, language, detected, severity, i,
                   readability, performance, maintainability, best_practices,
                   quality_score>>
    /\ UNCHANGED review_vars

NextResources == GetRelevantResources

SpecResources == InitResources /\ [][NextResources]_vars

(***************************************************************************)
(* SpecEnhance: one call of _enhance_with_resources.                       *)
(***************************************************************************)
InitEnhance ==
    /\ pc = "enhance"
    /\ review_content \in EnhanceReviews
    /\ code_snippet \in EnhanceCodes
    /\ comments \in EnhanceBatches
    /\ language \in EnhanceLanguages
    /\ comment = <<>>
    /\ detected = None
    /\ severity = None
    /\ resources = <<>>
    /\ i = 0
    /\ readability = baseline
    /\ performance = baseline
    /\ maintainability = baseline
    /\ best_practices = baseline
    /\ quality_score = NoScore
    /\ input_data = <<>>
    /\ persona = "SENIOR_DEVELOPER"
    /\ system_prompt = <<>>
    /\ user_prompt = <<>>
    /\ service_calls = 0
    /\ response = NoResponse
    /\ enhanced_review = <<>>
    /\ final_report = <<>>
    /\ error = NoError
    /\ steps = <<>>
    /\ history = <<>>
    /\ last_analysis = NoAnalysis

EnhanceWithResources ==
    /\ pc = "enhance"
    /\ \E unique \in {unique_resources_of(code_snippet, comments, language)} :
           /\ resources' = unique
           /\ enhanced_review' = append_resource_section(review_content, unique)
    /\ pc' = "enhanced"
    /\ UNCHANGED <<code_snippet, comment, comments, language, detected, severity, i,
                   readability, performance, maintainability, best_practices,
                   quality_score, review_content>>
    /\ UNCHANGED <<input_data, persona, last_analysis, system_prompt, user_prompt, service_calls,
                   response, final_report, error, steps, history>>

NextEnhance == EnhanceWithResources

SpecEnhance == InitEnhance /\ [][NextEnhance]_vars

(***************************************************************************)
(* Spec: a reviewer and one call of generate_review_report on it, step by  *)
(* step; set_persona may be called before the call, after it, and by       *)
(* another thread while the call waits for the external service.           *)
(* steps lists the steps the call has completed; history has one entry per *)
(* call: the request, self.persona when the call began and when it ended,  *)
(* the service's response, and what the call returned or raised.           *)
(***************************************************************************)
Init ==
    /\ pc = "idle"
    /\ persona \in PersonaValues
    /\ code_snippet = <<>>
    /\ comment = <<>>
    /\ comments = <<>>
    /\ language = None
    /\ detected = None
    /\ severity = None
    /\ resources = <<>>
    /\ i = 0
    /\ readability = baseline
    /\ performance = baseline
    /\ maintainability = baseline
    /\ best_practices = baseline
    /\ quality_score = NoScore
    /\ input_data = EmptyDict
    /\ system_prompt = <<>>
    /\ user_prompt = <<>>
    /\ service_calls = 0
    /\ response = NoResponse
    /\ review_content = <<>>
    /\ enhanced_review = <<>>
    /\ final_report = <<>>
    /\ error = NoError
    /\ steps = <<>>
    /\ history = <<>>
    /\ last_analysis = NoAnalysis

\* the call begins: its locals are fresh
Begin(request) ==
    /\ input_data' = request
    /\ pc' = "validate"
    /\ code_snippet' = <<>>
    /\ comments' = <<>>
    /\ language' = None
    /\ resources' = <<>>
    /\ quality_score' = NoScore
    /\ system_prompt' = <<>>
    /\ user_prompt' = <<>>
    /\ service_calls' = 0
    /\ response' = NoResponse
    /\ review_content' = <<>>
    /\ enhanced_review' = <<>>
    /\ final_report' = <<>>
    /\ error' = NoError
    /\ steps' = <<>>
    /\ history' = Append(history,
                         [request |-> request, persona |-> persona,
                          persona_end |-> persona, response |-> NoResponse,
                          steps |-> <<>>, final_report |-> <<>>,
                          quality_score |-> NoScore, error |-> NoError])
    /\ UNCHANGED <<comment, detected, severity, i, readability, performance,
                   maintainability, best_practices, persona, last_analysis>>

\* the call ends: the last entry of history gets its outcome
Ended(resp, done, report, score, e) ==
    [history EXCEPT ![Len(history)] =
        [@ EXCEPT !.persona_end = persona, !.response = resp, !.steps = done,
                  !.final_report = report, !.quality_score = score, !.error = e]]

\* lines 432-433: e was raised inside the try block, resp is what the
\* service had answered
Raise(e, resp) ==
    /\ pc' = "raised"
    /\ error' = wrapped(e)
    /\ history' = Ended(resp, steps, <<>>, quality_score, wrapped(e))

GenerateReviewReport ==
    /\ pc = "idle"
    /\ history = <<>>
    /\ \E request \in Requests : Begin(request)

\* lines 402-410
Validate ==
    /\ pc = "validate"
    /\ \E e \in {validation_error(input_data)} :
           IF e # NoError
           THEN /\ Raise(e, response)
                /\ UNCHANGED <<code_snippet, comments, steps>>
           ELSE /\ code_snippet' = input_data.code_snippet
                /\ comments' = input_data.review_comments.items
                /\ steps' = Append(steps, "validate")
                /\ pc' = "detect"
                /\ UNCHANGED <<error, history>>
    /\ UNCHANGED <<comment, language, detected, severity, resources, i,
                   readability, performance, maintainability, best_practices,
                   quality_score, input_data, persona, last_analysis, system_prompt,
                   user_prompt, service_calls, response, review_content,
                   enhanced_review, final_report>>

\* line 413
Detect ==
    /\ pc = "detect"
    /\ language' = _detect_language(code_snippet)
    /\ steps' = Append(steps, "detect")
    /\ pc' = "score"
    /\ UNCHANGED <<code_snippet, comment, comments, detected, severity,
                   resources, i, readability, performance, maintainability,
                   best_practices, quality_score, input_data, persona, last_analysis,
                   system_prompt, user_prompt, service_calls, response,
                   review_content, enhanced_review, final_report, error,
                   history>>

\* line 416; comment.lower() fails on an element that is not a str
Score ==
    /\ pc = "score"
    /\ IF \E k \in DOMAIN comments : comments[k] = NonStr
       THEN /\ Raise(Error("AttributeError",
                           <<"'int' object has no attribute 'lower'">>),
                     response)
            /\ UNCHANGED <<quality_score, steps>>
       ELSE /\ quality_score' =
                   _calculate_code_quality_score(code_snippet, comments, language)
            /\ steps' = Append(steps, "score")
            /\ pc' = "prompt"
            /\ UNCHANGED <<error, history>>
    /\ UNCHANGED <<code_snippet, comment, comments, language, detected,
                   severity, resources, i, readability, performance,
                   maintainability, best_practices, input_data, persona, last_analysis,
                   system_prompt, user_prompt, service_calls, response,
                   review_content, enhanced_review, final_report>>

\* lines 316-357: overall severity, system prompt, user prompt
BuildPrompt ==
    /\ pc = "prompt"
    /\ \E severities \in {[k \in DOMAIN comments |->
                              _assess_comment_severity(comments[k])]} :
           system_prompt' =
               _create_system_prompt(persona, overall_severity_of(severities), language)
    /\ user_prompt' = user_prompt_of(code_snippet, comments, language)
    /\ steps' = Append(steps, "prompt")
    /\ pc' = "call"
    /\ UNCHANGED <<code_snippet, comment, comments, language, detected,
                   severity, resources, i, readability, performance,
                   maintainability, best_practices, quality_score, input_data,
                   persona, last_analysis, service_calls, response, review_content,
                   enhanced_review, final_report, error, history>>

\* the request sent before the prompt is built
CallService_before_prompt ==
    /\ pc = "prompt"
    /\ service_calls' = service_calls + 1
    /\ steps' = Append(steps, "call")
    /\ pc' = "awaiting"
    /\ UNCHANGED <<code_snippet, comment, comments, language, detected,
                   severity, resources, i, readability, performance,
                   maintainability, best_practices, quality_score, input_data,
                   persona, last_analysis, system_prompt, user_prompt, response,
                   review_content, enhanced_review, final_report, error,
                   history>>

\* lines 360-368: the request is sent, the call waits for the answer
CallService ==
    /\ pc = "call"
    /\ service_calls' = service_calls + 1
    /\ steps' = Append(steps, "call")
    /\ pc' = "awaiting"
    /\ UNCHANGED <<code_snippet, comment, comments, language, detected,
                   severity, resources, i, readability, performance,
                   maintainability, best_practices, quality_score, input_data,
                   persona, last_analysis, system_prompt, user_prompt, response,
                   review_content, enhanced_review, final_report, error,
                   history>>

\* lines 360-373: the service answers or fails, in one of the ways of
\* responses
ReceiveFrom(responses) ==
    /\ pc = "awaiting"
    /\ \E r \in responses :
           /\ response' = r
           /\ IF r.kind = "text"
              THEN /\ review_content' = strip(r.content)
                   /\ steps' = Append(steps, "response")
                   /\ pc' = "enhance"
                   /\ UNCHANGED <<error, history>>
              ELSE /\ Raise(generation_error(service_exception(r)), r)
                   /\ UNCHANGED <<review_content, steps>>
    /\ UNCHANGED <<code_snippet, comment, comments, language, detected,
                   severity, resources, i, readability, performance,
                   maintainability, best_practices, quality_score, input_data,
                   persona, last_analysis, system_prompt, user_prompt, service_calls,
                   enhanced_review, final_report>>

Receive == ReceiveFrom(ServiceResponses)

\* line 422
Enhance ==
    /\ pc = "enhance"
    /\ \E unique \in {unique_resources_of(code_snippet, comments, language)} :
           /\ resources' = unique
           /\ enhanced_review' = append_resource_section(review_content, unique)
    /\ steps' = Append(steps, "enhance")
    /\ pc' = "header"
    /\ UNCHANGED <<code_snippet, comment, comments, language, detected,
                   severity, i, readability, performance, maintainability,
                   best_practices, quality_score, input_data, persona, last_analysis,
                   system_prompt, user_prompt, service_calls, response,
                   review_content, final_report, error, history>>

\* lines 425-430; self.persona.value fails when self.persona is not a
\* member of ReviewerPersona
Header ==
    /\ pc = "header"
    /\ IF persona \notin ReviewerPersona
       THEN /\ Raise(Error("AttributeError",
                           <<"'str' object has no attribute 'value'">>),
                     response)
            /\ UNCHANGED <<final_report, steps>>
       ELSE \E report \in {report_header(language, persona_name_of(persona),
                                         quality_score.overall_score)
                           \o enhanced_review} :
                /\ final_report' = report
                /\ steps' = Append(steps, "header")
                /\ pc' = "returned"
                /\ history' = Ended(response, steps', report, quality_score, NoError)
                /\ UNCHANGED error
    /\ UNCHANGED <<code_snippet, comment, comments, language, detected,
                   severity, resources, i, readability, performance,
                   maintainability, best_practices, quality_score, input_data,
                   persona, last_analysis, system_prompt, user_prompt, service_calls,
                   response, review_content, enhanced_review>>

\* set_persona, lines 435-437
SetPersonaTo(personas) ==
    /\ \E p \in personas \ {persona} : persona' = p
    /\ UNCHANGED <<pc, code_snippet, comment, comments, language, detected,
                   severity, resources, i, readability, performance,
                   maintainability, best_practices, quality_score, input_data,
                   system_prompt, user_prompt, service_calls, response,
                   review_content, enhanced_review, final_report, error, steps,
                   history, last_analysis>>

\* set_persona before or after the call, or while it waits for the service
SetPersona ==
    /\ pc \in {"idle", "awaiting", "returned", "raised"}
    /\ SetPersonaTo(PersonaValues)

Next ==
    \/ GenerateReviewReport
    \/ Validate
    \/ Detect
    \/ Score
    \/ BuildPrompt
    \/ CallService
    \/ Receive
    \/ Enhance
    \/ Header
    \/ SetPersona

Spec == Init /\ [][Next]_vars

(***************************************************************************)
(* SpecRepeat: at most MaxRuns calls of generate_review_report, one after  *)
(* the other on the same reviewer, with set_persona between them.          *)
(***************************************************************************)
MaxRuns == 3

\* "Variable 'u' is a bad name." on "def func(): pass", "Looks fine." and
\* "Terrible style, ..." on "if flag == True: pass", and no comments
RepeatRequests ==
    {[code_snippet |-> code_def, review_comments |-> PyList(<<comment_bad_name>>)],
     [code_snippet |-> code_true,
      review_comments |-> PyList(<<comment_fine, comment_terrible>>)],
     [code_snippet |-> code_def, review_comments |-> PyList(<<>>)]}

RepeatPersonas == {"MENTOR", "TECH_LEAD"}

RepeatResponses ==
    {Response("text", <<"\n">> \o review_text \o <<"\n">>), Response("error", <<>>)}

InitRepeat ==
    /\ Init
    /\ persona \in RepeatPersonas

GenerateReviewReportAgain ==
    /\ pc \in {"idle", "returned", "raised"}
    /\ Len(history) < MaxRuns
    /\ \E request \in RepeatRequests : Begin(request)

ReceiveRepeat == ReceiveFrom(RepeatResponses)

SetPersonaBetween ==
    /\ pc \in {"idle", "returned", "raised"}
    /\ SetPersonaTo(RepeatPersonas)

NextRepeat ==
    \/ GenerateReviewReportAgain
    \/ Validate
    \/ Detect
    \/ Score
    \/ BuildPrompt
    \/ CallService
    \/ ReceiveRepeat
    \/ Enhance
    \/ Header
    \/ SetPersonaBetween

SpecRepeat == InitRepeat /\ [][NextRepeat]_vars

(***************************************************************************)
(* SpecPrompt: one call of generate_review_report up to the point where    *)
(* the prompts are built, for batches of at most MaxComments comments with *)
(* a harsh, a moderate and a neutral comment to draw from.                 *)
(***************************************************************************)
\* "Variable 'u' is a bad name." is harsh, "Looks fine." is moderate,
\* "Consider better naming" is neutral
PromptComments == {comment_bad_name, comment_fine, comment_naming}

GenerateReviewReportPrompt ==
    /\ pc = "idle"
    /\ history = <<>>
    /\ \E items \in UNION {[1..m -> PromptComments] : m \in 0..MaxComments} :
           Begin([code_snippet |-> code_def, review_comments |-> PyList(items)])

NextPrompt ==
    \/ GenerateReviewReportPrompt
    \/ Validate
    \/ Detect
    \/ Score
    \/ BuildPrompt

SpecPrompt == InitRepeat /\ [][NextPrompt]_vars

(***************************************************************************)
(* load_example_data (app.py) and analyze_code_quality.  The application   *)
(* fills the request with one of its built-in examples or with what the    *)
(* user pasted, and analyze_code_quality is called with the request's code *)
(* and comments (app.py, lines 458-460): language detection, scoring, and  *)
(* the returned dict with the score rounded by CodeQualityScore.to_dict.   *)
(***************************************************************************)
examples ==
    [python |->
        [code_snippet |->
          <<"def", " ", "get_active_users(users):", "\n",
            "    ", "results", " ", "=", " ", "[]", "\n",
            "    ", "for", " ", "u", " ", "in", " ", "users:", "\n",
            "        ", "if", " ", "u.is_active", " ", "==", " ", "True", " ", "and", " ",
            "u.profile_complete", " ", "==", " ", "True", ":", "\n",
            "            ", "results.append(u)", "\n",
            "    ", "return", " ", "results">>,
         review_comments |-> PyList(
          << <<"This", " ", "is", " ", "in", "efficient", ".", " ", "Don't", " ", "loop",
               " ", "twice", " ", "conceptually.">>,
             comment_bad_name,
             comment_redundant >>)],
     javascript |->
        [code_snippet |->
          <<"function", " ", "getUserData(users)", " ", "{", "\n",
            "    ", "var", " ", "result", " ", "=", " ", "[];", "\n",
            "    ", "for", " ", "(var", " ", "i", " ", "=", " ", "0;", " ", "i", " ", "<",
            " ", "users.length;", " ", "i++)", " ", "{", "\n",
            "        ", "if", " ", "(users[i].active", " ", "==", " ", "true", " ", "&&",
            " ", "users[i].verified", " ", "==", " ", "true", ")", " ", "{", "\n",
            "            ", "result.push(users[i]);", "\n",
            "        ", "}", "\n",
            "    ", "}", "\n",
            "    ", "return", " ", "result;", "\n",
            "}">>,
         review_comments |-> PyList(
          << <<"Use", " ", "const", "/", "let", " ", "instead", " ", "of", " ", "var", " ",
               "for", " ", "better", " ", "scoping.">>,
             <<"This", " ", "loop", " ", "is", " ", "in", "efficient", ",", " ",
               "consider", " ", "using", " ", "filter().">>,
             <<"Boolean", " ", "comparison", " ", "with", " ", "==", " ", "true", " ",
               "is", " ", "redundant.">>,
             <<"Function", " ", "name", " ", "could", " ", "be", " ", "more", " ",
               "descriptive.">> >>)],
     java |->
        [code_snippet |->
          <<"public", " ", "List<User>", " ", "getActiveUsers(List<User>", " ", "users)",
            " ", "{", "\n",
            "    ", "List<User>", " ", "result", " ", "=", " ", "new", " ",
            "ArrayList<>();", "\n",
            "    ", "for", " ", "(int", " ", "i", " ", "=", " ", "0;", " ", "i", " ", "<",
            " ", "users.size();", " ", "i++)", " ", "{", "\n",
            "        ", "User", " ", "u", " ", "=", " ", "users.get(i);", "\n",
            "        ", "if", " ", "(u.isActive()", " ", "==", " ", "true", " ", "&&", " ",
            "u.isVerified()", " ", "==", " ", "true", ")", " ", "{", "\n",
            "            ", "result.add(u);", "\n",
            "        ", "}", "\n",
            "    ", "}", "\n",
            "    ", "return", " ", "result;", "\n",
            "}">>,
         review_comments |-> PyList(
          << <<"Enhanced", " ", "for-", "loop", " ", "would", " ", "be", " ", "more", " ",
               "readable.">>,
             <<"Boolean", " ", "comparison", " ", "with", " ", "==", " ", "true", " ",
               "is", " ", "unnecessary.">>,
             <<"Variable", " ", "name", " ", "'u'", " ", "is", " ", "not", " ",
               "descriptive.">>,
             <<"Consider", " ", "using", " ", "streams", " ", "for", " ", "function",
               "al", " ", "approach.">> >>)]]

\* examples.get(language, examples["python"])
load_example_data(example) == get(examples, example, examples["python"])

\* round(x, 1) of a number of eighths in the other direction at a tie
round1_half_up(n) == (10 * n + 4) \div 8

\* round(x, 1) of a number of eighths, in tenths: the nearest tenth, the
\* even one of the two at a tie (an eighth is an exact float)
round1(n) ==
    LET q == (10 * n) \div 8
        r == (10 * n) % 8
    IN  IF r > 4 \/ (r = 4 /\ q % 2 = 1) THEN q + 1 ELSE q

\* CodeQualityScore.to_dict: the six fields, each rounded to one decimal
to_dict(score) == [f \in DOMAIN score |-> round1(score[f])]

\* the breakdown counted over the different comments of the batch
severity_breakdown_of_distinct(cmts) ==
    [s \in {"harsh", "moderate", "neutral"} |->
        Cardinality({cmts[k] : k \in {j \in DOMAIN cmts :
                                         _assess_comment_severity(cmts[j]) = s}})]

\* sum(1 for c in comments if self._assess_comment_severity(c) == severity)
\* for each severity
severity_breakdown_of(cmts) ==
    [s \in {"harsh", "moderate", "neutral"} |->
        Cardinality({k \in DOMAIN cmts : _assess_comment_severity(cmts[k]) = s})]

InitAnalyze ==
    /\ Init
    /\ persona = "SENIOR_DEVELOPER"

\* app.py line 313: example_data = load_example_data(example_type), for the
\* examples the application's buttons load and one it has not
LoadExample ==
    /\ pc = "idle"
    /\ \E example \in {"python", "javascript", "java", "go"} :
           input_data' = load_example_data(example)
    /\ pc' = "loaded"
    /\ UNCHANGED <<code_snippet, comments, language, quality_score, last_analysis>>
    /\ UNCHANGED <<comment, detected, severity, resources, i, readability, performance,
                   maintainability, best_practices, persona, system_prompt, user_prompt,
                   service_calls, response, review_content, enhanced_review, final_report,
                   error, steps, history>>

\* the request typed or pasted into the input box
PasteRequest ==
    /\ pc = "idle"
    /\ \E code \in {code_def, code_js}, items \in PenaltyBatches :
           input_data' = [code_snippet |-> code, review_comments |-> PyList(items)]
    /\ pc' = "loaded"
    /\ UNCHANGED <<code_snippet, comments, language, quality_score, last_analysis>>
    /\ UNCHANGED <<comment, detected, severity, resources, i, readability, performance,
                   maintainability, best_practices, persona, system_prompt, user_prompt,
                   service_calls, response, review_content, enhanced_review, final_report,
                   error, steps, history>>

\* app.py lines 458-460 and line 445: the call and the language detection
AnalyzeDetect ==
    /\ pc = "loaded"
    /\ code_snippet' = input_data.code_snippet
    /\ comments' = input_data.review_comments.items
    /\ language' = _detect_language(input_data.code_snippet)
    /\ pc' = "analyze_score"
    /\ UNCHANGED <<input_data, quality_score, last_analysis>>
    /\ UNCHANGED <<comment, detected, severity, resources, i, readability, performance,
                   maintainability, best_practices, persona, system_prompt, user_prompt,
                   service_calls, response, review_content, enhanced_review, final_report,
                   error, steps, history>>

\* line 446
AnalyzeScore ==
    /\ pc = "analyze_score"
    /\ quality_score' = _calculate_code_quality_score(code_snippet, comments, language)
    /\ pc' = "analyze_return"
    /\ UNCHANGED <<input_data, code_snippet, comments, language, last_analysis>>
    /\ UNCHANGED <<comment, detected, severity, resources, i, readability, performance,
                   maintainability, best_practices, persona, system_prompt, user_prompt,
                   service_calls, response, review_content, enhanced_review, final_report,
                   error, steps, history>>

\* lines 448-456
AnalyzeReturn ==
    /\ pc = "analyze_return"
    /\ last_analysis' =
           [language |-> language,
            quality_metrics |-> to_dict(quality_score),
            total_issues |-> Len(comments),
            severity_breakdown |-> severity_breakdown_of(comments)]
    /\ pc' = "analyzed"
    /\ UNCHANGED <<input_data, code_snippet, comments, language, quality_score>>
    /\ UNCHANGED <<comment, detected, severity, resources, i, readability, performance,
                   maintainability, best_practices, persona, system_prompt, user_prompt,
                   service_calls, response, review_content, enhanced_review, final_report,
                   error, steps, history>>

NextAnalyze ==
    LoadExample \/ PasteRequest \/ AnalyzeDetect \/ AnalyzeScore \/ AnalyzeReturn

SpecAnalyze == InitAnalyze /\ [][NextAnalyze]_vars

(***************************************************************************)
(* Claims about _detect_language, under SpecDetect.                        *)
(***************************************************************************)
PatternsInOrder ==
    <<python_patterns, javascript_patterns, java_patterns, cpp_patterns,
      go_patterns>>

Matching(text) == {k \in DOMAIN PatternsInOrder : AnyIn(text, PatternsInOrder[k])}

\* The first language, in the order of Languages, one of whose keywords
\* occurs in text; python when there is none.
FirstMatch(text) ==
    IF Matching(text) = {} THEN "python"
    ELSE Languages[CHOOSE k \in Matching(text) : \A m \in Matching(text) : k <= m]

\* C4 as stated: the result is the first language, in the order python,
\* javascript, java, cpp, go, with a keyword occurring in the lower-cased
\* snippet, python when no language matches, and always one of the five.
C4_first_match_in_lowered ==
    pc = "detected" =>
        /\ detected = FirstMatch(lower(code_snippet))
        /\ \E k \in DOMAIN Languages : detected = Languages[k]

\* C4 amended: the result is the first language, in the order python,
\* javascript, java, cpp, go, with a keyword occurring in the lower-cased
\* snippet after its leading and trailing whitespace is stripped, python
\* when no language matches, and always one of the five.
C4_first_match_in_stripped ==
    pc = "detected" =>
        /\ detected = FirstMatch(strip(lower(code_snippet)))
        /\ \E k \in DOMAIN Languages : detected = Languages[k]

\* A snippet matching both python and javascript keywords was classified
\* (python wins), and so was one whose only keyword is cut by the strip.
C4_witness ==
    /\ pc = "detected"
    /\ code_snippet = <<"DEF", " ", "function">>
    /\ detected = "python"

\* C5: each of the five snippets of test_multi_language_detection is
\* detected as the language the test expects for it.
C5_test_snippets_detected ==
    pc = "detected" =>
        \A k \in DOMAIN test_codes :
            code_snippet = test_codes[k] => detected = test_expected[k]

\* C6 as stated: every snippet that contains "function " or "const " is
\* detected as javascript.
C6_function_or_const_is_javascript ==
    (/\ pc = "detected"
     /\ \/ Contains(code_snippet, <<"function", " ">>)
        \/ Contains(code_snippet, <<"const", " ">>))
    => detected = "javascript"

\* C6 amended: every snippet whose lower-cased, whitespace-stripped text
\* contains "function " or "const " and none of the python keywords is
\* detected as javascript.
C6_function_or_const_without_python ==
    (/\ pc = "detected"
     /\ \/ Contains(strip(lower(code_snippet)), <<"function", " ">>)
        \/ Contains(strip(lower(code_snippet)), <<"const", " ">>)
     /\ ~AnyIn(strip(lower(code_snippet)), python_patterns))
    => detected = "javascript"

\* A snippet with "const " before other text, and no python keyword, was
\* detected as javascript.
C6_witness ==
    /\ pc = "detected"
    /\ code_snippet = <<"const", " ", "x">>
    /\ detected = "javascript"

(***************************************************************************)
(* Claims about _calculate_code_quality_score, under SpecScore.            *)
(***************************************************************************)
Fields(q) ==
    {q.overall_score, q.readability, q.performance, q.maintainability,
     q.best_practices, q.improvement_potential}

\* C1: each of the six fields of the returned score lies in [0, 10].
C1_fields_in_range ==
    pc = "scored" => \A f \in Fields(quality_score) : 0 <= f /\ f <= 80

\* Four harsh comments on all four dimensions: every dimension was driven
\* below zero and clamped to 0, and improvement_potential is 10.
C1_witness ==
    /\ pc = "scored"
    /\ comments = <<comment_terrible, comment_terrible, comment_terrible,
                    comment_terrible>>
    /\ quality_score.readability = 0
    /\ quality_score.overall_score = 0
    /\ quality_score.improvement_potential = 80

\* C2: overall_score is the unweighted mean of the four returned (clamped)
\* dimensions, and improvement_potential + overall_score is exactly 10.
C2_overall_is_mean ==
    pc = "scored" =>
        /\ 4 * quality_score.overall_score =
               quality_score.readability + quality_score.performance
               + quality_score.maintainability + quality_score.best_practices
        /\ quality_score.improvement_potential + quality_score.overall_score = 80
        /\ quality_score.readability = readability
        /\ quality_score.performance = performance
        /\ quality_score.maintainability = maintainability
        /\ quality_score.best_practices = best_practices

\* One neutral naming comment: readability 6.5, overall 6.875.
C2_witness ==
    /\ pc = "scored"
    /\ comments = <<comment_naming>>
    /\ quality_score.readability = 52
    /\ quality_score.overall_score = 55
    /\ quality_score.improvement_potential = 25

C3_weight(s) ==
    CASE s = "harsh" -> -16 [] s = "moderate" -> -8 [] s = "neutral" -> -4

\* for each comment of the pool and each dimension: the weight of the
\* comment's severity if the lower-cased comment contains a trigger word
\* of the dimension, else 0
C3_term ==
    [c \in BatchComments |->
        [words \in {readability_words, performance_words, maintainability_words,
                    best_practices_words} |->
            IF AnyIn(lower(c), words)
            THEN C3_weight(_assess_comment_severity(c))
            ELSE 0]]

\* the sum of the terms of the first n comments of the batch
RECURSIVE C3_sum(_, _, _)
C3_sum(batch, words, n) ==
    IF n = 0 THEN 0
    ELSE C3_sum(batch, words, n - 1) + C3_term[batch[n]][words]

C3_clamp(x) == IF x < 0 THEN 0 ELSE IF x > 80 THEN 80 ELSE x

\* C3: each returned dimension is clamp(7.0 + the sum of weight(severity(c))
\* over the comments c containing a trigger word of the dimension), with
\* weights -2.0, -1.0, -0.5 for harsh, moderate, neutral; inside the loop
\* the dimensions are the unclamped sums over the comments processed so far.
C3_dimension_formula ==
    /\ pc = "score_loop" =>
        /\ readability = 56 + C3_sum(comments, readability_words, i)
        /\ performance = 56 + C3_sum(comments, performance_words, i)
        /\ maintainability = 56 + C3_sum(comments, maintainability_words, i)
        /\ best_practices = 56 + C3_sum(comments, best_practices_words, i)
    /\ pc = "scored" =>
        /\ quality_score.readability =
               C3_clamp(56 + C3_sum(comments, readability_words, Len(comments)))
        /\ quality_score.performance =
               C3_clamp(56 + C3_sum(comments, performance_words, Len(comments)))
        /\ quality_score.maintainability =
               C3_clamp(56 + C3_sum(comments, maintainability_words, Len(comments)))
        /\ quality_score.best_practices =
               C3_clamp(56 + C3_sum(comments, best_practices_words, Len(comments)))

\* A neutral, a harsh and a second harsh comment on readability, the last
\* also on the three other dimensions.
C3_witness ==
    /\ pc = "scored"
    /\ comments = <<comment_naming, comment_bad_name, comment_terrible>>
    /\ quality_score.readability = 20
    /\ quality_score.performance = 40
    /\ quality_score.maintainability = 40
    /\ quality_score.best_practices = 40

ScoringWords ==
    readability_words \o performance_words \o maintainability_words
    \o best_practices_words

\* the comments of the pool without any scoring trigger word
C8_without_trigger == {c \in BatchComments : ~AnyIn(lower(c), ScoringWords)}

\* the comments of the pool without any harsh or hedging indicator
C8_without_indicator ==
    {c \in BatchComments :
        /\ \A k \in DOMAIN harsh_indicators :
               ~Contains(lower(c), <<harsh_indicators[k]>>)
        /\ \A k \in DOMAIN neutral_indicators :
               ~Contains(lower(c), <<neutral_indicators[k]>>)}

\* C8: when no comment of the batch contains a scoring trigger word, all
\* four dimensions are 7.0, overall is 7.0 and improvement_potential 3.0;
\* and a comment with no harsh and no hedging indicator is classified
\* moderate by the loop.
C8_no_trigger_keeps_baseline ==
    /\ (/\ pc = "scored"
        /\ \A k \in DOMAIN comments : comments[k] \in C8_without_trigger)
       => quality_score = CodeQualityScore(56, 56, 56, 56, 56, 24)
    /\ (i > 0 /\ comment \in C8_without_indicator) => severity = "moderate"

\* "Looks fine.", the harsh "This is bad" and "Boolean comparison '== True'
\* is redundant.": no trigger word, the last one without any indicator.
C8_witness ==
    /\ pc = "scored"
    /\ comments = <<comment_fine, comment_bad, comment_redundant>>
    /\ comment = comment_redundant
    /\ severity = "moderate"
    /\ quality_score.overall_score = 56

\* the comments of the pool containing 'naming', 'variable' or 'unclear'
C9_with_readability_trigger ==
    {c \in BatchComments :
        \/ Contains(lower(c), <<"naming">>)
        \/ Contains(lower(c), <<"variable">>)
        \/ Contains(lower(c), <<"unclear">>)}

\* C9: when at least one comment of the batch contains 'naming', 'variable'
\* or 'unclear', readability and overall_score are both below 7.0.
C9_readability_trigger_lowers ==
    (/\ pc = "scored"
     /\ \E k \in DOMAIN comments : comments[k] \in C9_with_readability_trigger)
    => /\ quality_score.readability < 56
       /\ quality_score.overall_score < 56

\* Scenario A: code with 'def ' detected as python and the three comments
\* of the example; readability 5.0, overall 6.25.
C9_witness ==
    /\ pc = "scored"
    /\ code_snippet = code_def
    /\ language = "python"
    /\ comments = <<comment_inefficient, comment_bad_name, comment_redundant>>
    /\ quality_score.readability = 40
    /\ quality_score.overall_score = 50

(***************************************************************************)
(* Claims about _assess_comment_severity, under SpecSeverity.              *)
(***************************************************************************)
C7_harsh_count == 
    Cardinality({w \in {harsh_indicators[k] : k \in DOMAIN harsh_indicators} :
                    Contains(lower(comment), <<w>>)})

C7_neutral_count ==
    Cardinality({w \in {neutral_indicators[k] : k \in DOMAIN neutral_indicators} :
                    Contains(lower(comment), <<w>>)})

\* C7: the classifier returns exactly one of harsh, moderate, neutral:
\* harsh when harsh_count > neutral_count, neutral when neutral_count >
\* harsh_count, moderate when the counts are equal (both zero included).
C7_severity_rule ==
    pc = "assessed" =>
        /\ severity \in {"harsh", "moderate", "neutral"}
        /\ C7_harsh_count > C7_neutral_count => severity = "harsh"
        /\ C7_neutral_count > C7_harsh_count => severity = "neutral"
        /\ C7_harsh_count = C7_neutral_count => severity = "moderate"

\* One harsh and one hedging indicator: equal non-zero counts, moderate.
C7_witness ==
    /\ pc = "assessed"
    /\ comment = <<"Bad", " ", "could">>
    /\ severity = "moderate"

(***************************************************************************)
(* Claims about _get_relevant_resources, under SpecResources.              *)
(***************************************************************************)
\* C10: the returned sequence contains no link twice and no empty string.
C10_no_duplicate_no_empty ==
    pc = "linked" =>
        /\ \A j, k \in DOMAIN resources : j # k => resources[j] # resources[k]
        /\ \A k \in DOMAIN resources : resources[k] # ""

(***************************************************************************)
(* Claims about _enhance_with_resources, under SpecEnhance.                *)
(***************************************************************************)
\* what _get_relevant_resources yields for each comment, code and language
C11_links ==
    [c \in EnhanceComments |-> [code \in EnhanceCodes |->
        [lang \in EnhanceLanguages |-> _get_relevant_resources(c, code, lang)]]]

\* the per-comment results of the batch, concatenated in comment order
RECURSIVE C11_concat(_, _, _)
C11_concat(cmts, code, lang) ==
    IF cmts = <<>> THEN <<>>
    ELSE C11_links[Head(cmts)][code][lang] \o C11_concat(Tail(cmts), code, lang)

\* positions of s that hold the first appearance of their element
C11_first_positions(s) ==
    {k \in DOMAIN s : \A j \in 1..(k - 1) : s[j] # s[k]}

\* the elements of s, each once, in the order of first appearance
C11_first_appearance(s) ==
    LET firsts == C11_first_positions(s)
    IN  [n \in 1..Cardinality(firsts) |->
            s[CHOOSE k \in firsts : Cardinality({j \in firsts : j <= k}) = n]]

\* every line "- link\n" : the links listed in text, in order
C11_listed(text) ==
    LET at == {k \in 2..(Len(text) - 1) : text[k - 1] = "- " /\ text[k + 1] = "\n"}
    IN  [n \in 1..Cardinality(at) |->
            text[CHOOSE k \in at : Cardinality({j \in at : j <= k}) = n]]

C11_has_section(text) == \E k \in DOMAIN text : text[k] = "## Additional Resources"

\* C11: the enhanced review is the review followed by a section that lists
\* every link yielded for a comment of the batch exactly once, in the order
\* of first appearance in the concatenated per-comment results; the section
\* is there iff there is such a link, and without one the review is
\* returned unchanged.
C11_links_once_in_first_seen_order ==
    pc = "enhanced" =>
        \E expected \in {C11_first_appearance(
                            C11_concat(comments, code_snippet, language))} :
            /\ SubSeq(enhanced_review, 1, Len(review_content)) = review_content
            /\ C11_listed(SubSeq(enhanced_review, Len(review_content) + 1,
                                 Len(enhanced_review))) = expected
            /\ C11_has_section(SubSeq(enhanced_review, Len(review_content) + 1,
                                      Len(enhanced_review))) <=> expected # <<>>
            /\ expected = <<>> => enhanced_review = review_content

\* a batch whose comments yield link a, then link b, then link a again, on a
\* review that is not empty
C11_witness ==
    /\ pc = "enhanced"
    /\ review_content # <<>>
    /\ \E all \in {C11_concat(comments, code_snippet, language)} :
           \E a, b, c \in DOMAIN all :
               a < b /\ b < c /\ all[a] = all[c] /\ all[a] # all[b]
    /\ Len(resources) > 1
    /\ C11_has_section(enhanced_review)

(***************************************************************************)
(* Claims about generate_review_report, under Spec.                        *)
(***************************************************************************)
\* the call in progress or ended
C_call == history[Len(history)]

\* validation has accepted the request / has rejected it
C_accepted == pc # "idle" /\ steps # <<>>
C_rejected == pc = "raised" /\ steps = <<>>

\* a non-empty code_snippet and a non-empty list of strings
C12_well_formed(input) ==
    /\ "code_snippet" \in DOMAIN input
    /\ "review_comments" \in DOMAIN input
    /\ input.code_snippet # <<>>
    /\ input.review_comments.type = "list"
    /\ input.review_comments.items # <<>>
    /\ \A k \in DOMAIN input.review_comments.items :
           input.review_comments.items[k] # NonStr

\* C12: once validation has decided, the request is accepted if and only if
\* it has a non-empty code_snippet and review_comments is a non-empty list
\* whose elements are all strings.
C12_accepted_iff_well_formed ==
    pc \notin {"idle", "validate"} =>
        /\ C_accepted <=> C12_well_formed(input_data)
        /\ C_rejected <=> ~C12_well_formed(input_data)

\* a key is missing, or review_comments is empty or not a list
C13_invalid(input) ==
    \/ "code_snippet" \notin DOMAIN input
    \/ "review_comments" \notin DOMAIN input
    \/ input.review_comments.type # "list"
    \/ input.review_comments.items = <<>>

C13_validation_messages ==
    {<<"Input must contain 'code_snippet' and 'review_comments' keys">>,
     <<"'review_comments' must be a non-empty list">>}

\* C13: a request that misses a key or whose review_comments is empty or
\* not a list never gets past validation: the call ends with the
\* validation error, and no language was detected, no score computed, no
\* prompt built, no review or report (or part of one) produced and the
\* service not invoked.
C13_invalid_fails_before_any_step ==
    (pc # "idle" /\ C13_invalid(input_data)) =>
        /\ pc \in {"validate", "raised"}
        /\ pc = "raised" =>
               \E m \in C13_validation_messages : Contains(error.message, m)
        /\ steps = <<>>
        /\ language = None
        /\ quality_score = NoScore
        /\ system_prompt = <<>>
        /\ user_prompt = <<>>
        /\ service_calls = 0
        /\ review_content = <<>>
        /\ enhanced_review = <<>>
        /\ final_report = <<>>

\* scenario C: an empty review_comments list was rejected
C13_witness ==
    /\ pc = "raised"
    /\ DOMAIN input_data = {"code_snippet", "review_comments"}
    /\ input_data.review_comments = PyList(<<>>)
    /\ error # NoError

\* C14: the service is invoked at most once in a call; when the generation
\* call failed, the call has ended with an error whose message contains the
\* message of the underlying cause, without a report, after exactly one
\* invocation of the service.
C14_failure_surfaces_cause_without_retry ==
    /\ service_calls <= 1
    /\ response.kind \in {"error", "no_content", "no_choices"} =>
           /\ pc = "raised"
           /\ Contains(error.message, service_exception(response).message)
           /\ final_report = <<>>
           /\ service_calls = 1

\* the service raised a transport error
C14_witness ==
    /\ pc = "raised"
    /\ response.kind = "error"
    /\ service_calls = 1
    /\ error.message[Len(error.message)] = "Connection error."

\* the response has no choices, no text or an empty text
C15_empty_or_malformed(r) ==
    \/ r.kind \in {"no_content", "no_choices"}
    \/ r.kind = "text" /\ r.content = <<>>

\* C15: a call that got an empty or malformed response ends with an error
\* and without a report; a report is returned only for a non-empty text.
C15_empty_response_fails ==
    /\ (pc \in {"returned", "raised"} /\ C15_empty_or_malformed(response)) =>
           pc = "raised" /\ final_report = <<>>
    /\ pc = "returned" => response.kind = "text" /\ response.content # <<>>

\* the steps of generate_review_report in the order of the code
C17_order ==
    <<"validate", "detect", "score", "prompt", "call", "response", "enhance",
      "header">>

C17_done(step) == \E k \in DOMAIN steps : steps[k] = step

\* C17: the completed steps are an initial part of validate, detect, score,
\* prompt, call, response, enhance, header; the prompt exists only with a
\* detected language and a score; the service is invoked only with both
\* prompts built; augmentation and assembly happen only after a text came
\* back; and when the call to the service failed, language and score are
\* there and nothing was assembled.
C17_steps_in_order ==
    pc # "idle" =>
        /\ Len(steps) <= Len(C17_order)
        /\ steps = SubSeq(C17_order, 1, Len(steps))
        /\ (system_prompt # <<>> \/ user_prompt # <<>>) =>
               /\ C17_done("score")
               /\ language # None
               /\ quality_score # NoScore
        /\ service_calls > 0 =>
               C17_done("prompt") /\ system_prompt # <<>> /\ user_prompt # <<>>
        /\ response # NoResponse => service_calls > 0
        /\ (C17_done("enhance") \/ enhanced_review # <<>> \/ final_report # <<>>) =>
               response.kind = "text"
        /\ response.kind \in {"error", "no_content", "no_choices"} =>
               /\ pc = "raised"
               /\ language # None
               /\ quality_score # NoScore
               /\ ~C17_done("enhance")
               /\ ~C17_done("header")
               /\ enhanced_review = <<>>
               /\ final_report = <<>>

\* a report was returned after all eight steps
C17_witness ==
    /\ pc = "returned"
    /\ steps = C17_order
    /\ final_report # <<>>
    /\ service_calls = 1

\* the persona whose instruction block is in the system prompt
C19_prompt_personas ==
    {p \in ReviewerPersona : Contains(system_prompt, <<persona_prompts[p]>>)}

\* the persona named in the header of the report
C19_header_personas ==
    {p \in ReviewerPersona :
        Contains(final_report,
                 <<"**Reviewer Persona:** ">> \o persona_name_of(p) \o <<" | ">>)}

\* C19: in a returned report the persona named in the header is the persona
\* whose instruction block was put into the system prompt.
C19_one_persona_per_review ==
    pc = "returned" => C19_header_personas = C19_prompt_personas

\* C20: when the service has returned a text the call does not fail, and a
\* system prompt built while self.persona is not one of the four personas
\* holds the senior_developer block.
C20_unrecognized_persona_falls_back ==
    /\ response.kind = "text" => pc # "raised"
    /\ (pc # "idle" /\ system_prompt # <<>> /\ C_call.persona \notin ReviewerPersona) =>
           Contains(system_prompt, <<persona_prompts["SENIOR_DEVELOPER"]>>)

(***************************************************************************)
(* Claims about repeated calls, under SpecRepeat.                          *)
(***************************************************************************)
\* the calls that have ended
C_ended ==
    {k \in DOMAIN history : k < Len(history) \/ pc \in {"returned", "raised"}}

\* the call failed in validation / in the generation call
C16_validation_failure(call) == call.error # NoError /\ call.steps = <<>>
C16_generation_failure(call) ==
    call.error # NoError /\ call.response.kind \in {"error", "no_content", "no_choices"}

\* C16: every call that ended without a report ended with an error, and a
\* call that failed in validation and a call that failed in generation
\* never ended with errors of the same type.
C16_failures_are_classified ==
    /\ \A k \in C_ended : history[k].final_report = <<>> => history[k].error # NoError
    /\ \A a, b \in C_ended :
           (C16_validation_failure(history[a]) /\ C16_generation_failure(history[b]))
               => history[a].error.type # history[b].error.type

\* C18: two calls with the same request, the same persona and the same
\* response of the service ended with the same report (header included),
\* the same score and the same error, whatever calls came between them;
\* and a call leaves the request and the persona as they were.
C18_same_request_same_result ==
    /\ \A a, b \in C_ended :
           (/\ history[a].request = history[b].request
            /\ history[a].persona = history[b].persona
            /\ history[a].response = history[b].response)
               => /\ history[a].final_report = history[b].final_report
                  /\ history[a].quality_score = history[b].quality_score
                  /\ history[a].error = history[b].error
    /\ \A k \in C_ended : history[k].persona_end = history[k].persona
    /\ pc # "idle" => input_data = C_call.request

\* the first and the third call got the same request, persona and response
\* and returned a report; the call between them got another request
C18_witness ==
    /\ Len(history) = MaxRuns
    /\ pc = "returned"
    /\ history[1].request = history[Len(history)].request
    /\ history[1].persona = history[Len(history)].persona
    /\ history[1].response = history[Len(history)].response
    /\ history[1].final_report # <<>>
    /\ \E k \in DOMAIN history : history[k].request # history[1].request

(***************************************************************************)
(* Claims about the layout of the report, under Spec.                      *)
(***************************************************************************)
\* the first position of lexeme in text, 0 when it does not occur
C21_position(text, lexeme) ==
    IF \E k \in DOMAIN text : text[k] = lexeme
    THEN CHOOSE k \in DOMAIN text :
             text[k] = lexeme /\ \A j \in 1..(k - 1) : text[j] # lexeme
    ELSE 0

\* C21: a returned report begins with the header line; the sections of the
\* comments come after the header; and a resource list, when there is one,
\* comes after the sections of the comments and before the closing summary
\* of the generated text.
C21_parts_in_order ==
    pc = "returned" =>
        \E header \in {C21_position(final_report, "**Language:** ")},
           section \in {C21_position(final_report, "### Analysis of Comment: ")},
           list \in {C21_position(final_report, "## Additional Resources")},
           summary \in {C21_position(final_report, "## Summary")} :
            /\ header > 0
            /\ section > 0 => header < section
            /\ (list > 0 /\ section > 0) => section < list
            /\ (list > 0 /\ summary > 0) => list < summary

(***************************************************************************)
(* Claims about the overall severity, under SpecPrompt.                    *)
(***************************************************************************)
C22_severity == [c \in PromptComments |-> _assess_comment_severity(c)]

\* how often severity x occurs among the comments
C22_count(cmts, x) == Cardinality({k \in DOMAIN cmts : C22_severity[cmts[k]] = x})

\* the most frequent severities of the batch
C22_modes(cmts) ==
    {x \in {"harsh", "moderate", "neutral"} :
        /\ C22_count(cmts, x) > 0
        /\ \A y \in {"harsh", "moderate", "neutral"} :
               C22_count(cmts, y) <= C22_count(cmts, x)}

\* the position of the first comment of severity x
C22_first(cmts, x) ==
    CHOOSE k \in DOMAIN cmts :
        C22_severity[cmts[k]] = x /\ \A j \in 1..(k - 1) : C22_severity[cmts[j]] # x

\* C22: the system prompt ends with the adjustment for the most frequent
\* severity of the batch, and among several most frequent ones for the one
\* that occurs first in the batch.
C22_mode_first_among_ties ==
    (pc = "call" /\ comments # <<>>) =>
        \E modes \in {C22_modes(comments)} :
        \E x \in modes :
            /\ \A y \in modes : C22_first(comments, x) <= C22_first(comments, y)
            /\ system_prompt[Len(system_prompt)] = severity_adjustments[x]

\* a batch of three or more comments with two most frequent severities, of
\* which the one of the last comment is not the one that occurs first
C22_witness ==
    /\ pc = "call"
    /\ Len(comments) >= 3
    /\ Cardinality(C22_modes(comments)) = 2
    /\ \E x \in C22_modes(comments) :
           /\ x # C22_severity[comments[Len(comments)]]
           /\ \A y \in C22_modes(comments) :
                  C22_first(comments, x) <= C22_first(comments, y)
           /\ system_prompt[Len(system_prompt)] = severity_adjustments[x]

(***************************************************************************)
(* Claims about the counts of _assess_comment_severity, under SpecSeverity.*)
(***************************************************************************)
\* the positions of the lower-cased comment that hold a word of indicators
C23_occurrences(indicators) ==
    {k \in DOMAIN comment :
        \E j \in DOMAIN indicators : indicators[j] = lower(comment)[k]}

\* the words of indicators that occur in the lower-cased comment
C23_words(indicators) == {lower(comment)[k] : k \in C23_occurrences(indicators)}

C23_rule(harsh_count, neutral_count) ==
    IF harsh_count > neutral_count THEN "harsh"
    ELSE IF neutral_count > harsh_count THEN "neutral"
    ELSE "moderate"

\* C23 as stated: the classifier compares the numbers of occurrences of
\* harsh words and of hedging words, every occurrence counted.
C23_counts_every_occurrence ==
    pc = "assessed" =>
        severity = C23_rule(Cardinality(C23_occurrences(harsh_indicators)),
                            Cardinality(C23_occurrences(neutral_indicators)))

\* C23 amended: the classifier compares the number of harsh words that
\* occur with the number of hedging words that occur, a word counted once
\* however often it occurs; two occurrences of one harsh word and one
\* occurrence of one hedging word make the comment moderate.
C23_counts_each_word_once ==
    pc = "assessed" =>
        /\ severity = C23_rule(Cardinality(C23_words(harsh_indicators)),
                               Cardinality(C23_words(neutral_indicators)))
        /\ (/\ Cardinality(C23_occurrences(harsh_indicators)) > 1
            /\ Cardinality(C23_words(harsh_indicators)) = 1
            /\ Cardinality(C23_occurrences(neutral_indicators)) = 1)
               => severity = "moderate"

\* "bad" twice and one hedging word
C23_witness ==
    /\ pc = "assessed"
    /\ Cardinality(C23_occurrences(harsh_indicators)) = 2
    /\ C23_words(harsh_indicators) = {"bad"}
    /\ Cardinality(C23_occurrences(neutral_indicators)) = 1
    /\ severity = "moderate"

(***************************************************************************)
(* Claims about the penalties of _calculate_code_quality_score, under      *)
(* SpecPenalty.                                                            *)
(***************************************************************************)
\* the weight of the severity of each comment
C24_weight ==
    [c \in PenaltyComments |->
        CASE _assess_comment_severity(c) = "harsh" -> -16
          [] _assess_comment_severity(c) = "moderate" -> -8
          [] _assess_comment_severity(c) = "neutral" -> -4]

\* the trigger words of a dimension that each comment contains
C24_triggers ==
    [c \in PenaltyComments |->
        [words \in {readability_words, performance_words, maintainability_words,
                    best_practices_words} |->
            {k \in DOMAIN words : Contains(lower(c), words[k])}]]

\* what the comment adds to the dimension with these trigger words
C24_change(c, words) == IF C24_triggers[c][words] # {} THEN C24_weight[c] ELSE 0

\* C24: the step of the loop for one comment changes each dimension whose
\* trigger set the comment matches by the weight of the comment's severity,
\* once, and leaves the other dimensions as they are.
C24_one_penalty_per_matched_dimension ==
    [][i' = i + 1 =>
          /\ readability' = readability + C24_change(comments[i'], readability_words)
          /\ performance' = performance + C24_change(comments[i'], performance_words)
          /\ maintainability' =
                 maintainability + C24_change(comments[i'], maintainability_words)
          /\ best_practices' =
                 best_practices + C24_change(comments[i'], best_practices_words)]_vars

\* after the moderate "Variable naming is unclear", with three trigger words
\* of readability, and the harsh "Terrible style, ...", with one of each
\* dimension: readability 7.0 - 1.0 - 2.0, the others 7.0 - 2.0
C24_witness ==
    /\ pc = "score_loop"
    /\ i = Len(comments)
    /\ comments = <<comment_unclear_naming, comment_terrible>>
    /\ Cardinality(C24_triggers[comment_unclear_naming][readability_words]) = 3
    /\ readability = 32
    /\ performance = 40
    /\ maintainability = 40
    /\ best_practices = 40

(***************************************************************************)
(* Claims about the boolean-comparison rule of _get_relevant_resources,    *)
(* under SpecResources.                                                    *)
(***************************************************************************)
\* the codes of ResourceCodes with "== true" or "== false" in them, in any
\* capitalisation
C25_comparison_codes == {code_true, code_js_true}

\* the language the linker works with
C25_language == IF language = None THEN _detect_language(code_snippet) ELSE language

\* C25: for python and a code with '== true' or '== false' in it, whatever
\* its capitals, the result contains the python style-guide link whatever
\* the comment says; for any other language the result is the one of the
\* same comment and language with an empty code, i.e. the comparison adds
\* no link.
C25_comparison_links_style_for_python_only ==
    pc = "linked" =>
        /\ (C25_language = "python" /\ code_snippet \in C25_comparison_codes)
              => \E k \in DOMAIN resources : resources[k] = python_resources.style
        /\ C25_language # "python"
              => resources = _get_relevant_resources(comment, <<>>, C25_language)

\* "if flag == True: pass" with the comment "variable", no language given:
\* the naming link for the comment and the style link for the code
C25_witness ==
    /\ pc = "linked"
    /\ language = None
    /\ code_snippet = code_true
    /\ comment = <<"variable">>
    /\ resources = <<python_resources.naming, python_resources.style>>

\* the six values of a score
C26_fields ==
    {"readability", "performance", "maintainability", "best_practices",
     "overall_score", "improvement_potential"}

\* the values that a comment must not raise
C26_scores == C26_fields \ {"improvement_potential"}

\* the score returned for sums r, p, m, b of the loop: that of the batch
\* of the comments read so far
C26_score_of(r, p, m, b) ==
    CodeQualityScore(overall_of(clamp(r), clamp(p), clamp(m), clamp(b)),
                     clamp(r), clamp(p), clamp(m), clamp(b),
                     Eighths(10) - overall_of(clamp(r), clamp(p), clamp(m), clamp(b)))

\* C26: in every returned score each dimension and the overall score are at
\* most 7.0 and improvement_potential is at least 3.0, and reading one more
\* comment never raises a dimension or the overall score: the score of the
\* batch read so far with the next comment appended has none of them above
\* that of the batch read so far.
C26_no_comment_raises_a_score ==
    /\ [](pc = "scored" =>
            /\ \A f \in C26_scores : quality_score[f] <= Eighths(7)
            /\ quality_score.improvement_potential >= Eighths(3))
    /\ [][i' = i + 1 =>
            \A f \in C26_scores :
                C26_score_of(readability', performance', maintainability',
                             best_practices')[f]
                  <= C26_score_of(readability, performance, maintainability,
                                  best_practices)[f]]_vars

\* "Consider better naming" and then the harsh comment on every dimension:
\* readability 7.0 - 0.5 - 2.0, the others 7.0 - 2.0, overall 4.875,
\* improvement 5.125
C26_witness ==
    /\ pc = "scored"
    /\ comments = <<comment_naming, comment_terrible>>
    /\ quality_score.readability = 36
    /\ quality_score.performance = 40
    /\ quality_score.overall_score = 39
    /\ quality_score.improvement_potential = 41

\* the permutations of 1..n
C27_permutations ==
    [n \in 0..MaxComments |->
        {p \in [1..n -> 1..n] : \A j, k \in 1..n : p[j] = p[k] => j = k}]

\* the calls of _calculate_code_quality_score for each code and batch of
\* SpecPenalty, with what they return
C27_returned ==
    {[code |-> code, comments |-> cmts,
      score |-> _calculate_code_quality_score(code, cmts, _detect_language(code))] :
        code \in {code_def, code_js}, cmts \in PenaltyBatches}

\* the batch in the order p
C27_permuted(cmts, p) == [k \in DOMAIN cmts |-> cmts[p[k]]]

\* C27: the score returned for a batch is the score that
\* _calculate_code_quality_score returns for every permutation of the batch,
\* with the same code and language.
C27_order_of_comments_is_irrelevant ==
    pc = "scored" =>
        \A p \in C27_permutations[Len(comments)] :
            [code |-> code_snippet, comments |-> C27_permuted(comments, p),
             score |-> quality_score] \in C27_returned

\* "Variable naming is unclear" before "Consider better naming" before the
\* harsh comment: the score of the batch read in the opposite order
C27_witness ==
    /\ pc = "scored"
    /\ comments = <<comment_unclear_naming, comment_naming, comment_terrible>>
    /\ [code |-> code_snippet,
        comments |-> <<comment_terrible, comment_naming, comment_unclear_naming>>,
        score |-> quality_score] \in C27_returned
    /\ quality_score.readability = 28
    /\ quality_score.overall_score = 37

(***************************************************************************)
(* Claims about the built-in examples and analyze_code_quality, under      *)
(* SpecAnalyze.                                                            *)
(***************************************************************************)
\* the positions after the language detection of analyze_code_quality
C28_detected == pc \in {"analyze_score", "analyze_return", "analyzed"}

\* C28: the code of each built-in example ('python', 'javascript', 'java')
\* is detected as the language the example is named for.
C28_examples_detected_as_named ==
    \A example \in {"python", "javascript", "java"} :
        (C28_detected /\ input_data = load_example_data(example))
            => language = example

\* the score generate_review_report computes for the request (lines 413
\* and 416)
C29_score_of_report ==
    _calculate_code_quality_score(input_data.code_snippet,
                                  input_data.review_comments.items,
                                  _detect_language(input_data.code_snippet))

\* the three counts add up to total_issues, the number of comments
C29_counts_add_up ==
    /\ last_analysis.severity_breakdown["harsh"]
         + last_analysis.severity_breakdown["moderate"]
         + last_analysis.severity_breakdown["neutral"] = last_analysis.total_issues
    /\ last_analysis.total_issues = Len(input_data.review_comments.items)

\* C29 as stated: the counts add up to total_issues, the number of
\* comments, and the reported language and metrics are the language and the
\* score that generate_review_report computes (metrics in tenths, scores
\* in eighths).
C29_reports_what_the_review_computes ==
    pc = "analyzed" =>
        /\ C29_counts_add_up
        /\ last_analysis.language = _detect_language(input_data.code_snippet)
        /\ \E score \in {C29_score_of_report} :
               \A f \in C26_fields :
                   8 * last_analysis.quality_metrics[f] = 10 * score[f]

\* C29, amended: the counts add up to total_issues, the number of comments;
\* the reported language is the one generate_review_report detects and each
\* reported metric is a tenth nearest to the value generate_review_report
\* computes (at most 0.05 away from it).
C29_reports_the_rounded_score_of_the_review ==
    pc = "analyzed" =>
        /\ C29_counts_add_up
        /\ last_analysis.language = _detect_language(input_data.code_snippet)
        /\ \E score \in {C29_score_of_report} :
               \A f \in C26_fields :
                   8 * last_analysis.quality_metrics[f] - 10 * score[f] \in -4..4

\* the javascript example: four comments, one moderate and three neutral,
\* overall 6.875 reported as 6.9
C29_witness ==
    /\ pc = "analyzed"
    /\ input_data = load_example_data("javascript")
    /\ last_analysis.language = "javascript"
    /\ last_analysis.total_issues = 4
    /\ last_analysis.severity_breakdown =
           [harsh |-> 0, moderate |-> 1, neutral |-> 3]
    /\ quality_score.overall_score = 55
    /\ last_analysis.quality_metrics.overall_score = 69

\* C30: in the reported metrics overall_score + improvement_potential = 10
\* (100 tenths), and each of the four dimensions is reported as it is, a
\* multiple of 0.5.
C30_rounded_metrics_add_up ==
    pc = "analyzed" =>
        /\ last_analysis.quality_metrics.overall_score
             + last_analysis.quality_metrics.improvement_potential = 100
        /\ \A f \in {"readability", "performance", "maintainability",
                     "best_practices"} :
               /\ 8 * last_analysis.quality_metrics[f] = 10 * quality_score[f]
               /\ quality_score[f] % 4 = 0

\* the python example: readability 5.0, performance 6.0, overall 6.25
\* reported as 6.2 and improvement 3.75 reported as 3.8
C30_witness ==
    /\ pc = "analyzed"
    /\ input_data = load_example_data("python")
    /\ quality_score.overall_score = 50
    /\ quality_score.improvement_potential = 30
    /\ last_analysis.quality_metrics.readability = 50
    /\ last_analysis.quality_metrics.performance = 60
    /\ last_analysis.quality_metrics.overall_score = 62
    /\ last_analysis.quality_metrics.improvement_potential = 38

====
